---- MODULE Spec2Model ----
(***************************************************************************)
(* A model of src/download.py: the run over the configured channels, the   *)
(* per-channel thread pool and, for every video, the retrying              *)
(* download-and-upload pipeline with its CSV ledger, the GCS bucket and    *)
(* the local download directory.                                           *)
(***************************************************************************)
EXTENDS Integers, Sequences, FiniteSets, TLC

\* ------------------------------------------------------------------ bounds

\* Worker threads of the pool (MAX_WORKERS is 5 in the source; the model
\* runs the pool with this many threads).
NumWorkers == 2

\* How many exceptions the extraction backend raises at most in a run
\* whose pool has several threads, and in a run whose pool has one.
ParallelFaults == 1
SequentialFaults == 3

\* How many turns of its loop the cookie monitor is followed for.
MaxIterations == 4

\* How many channels split.py is given at most, how many videos a channel
\* has at most, and how many groups are asked for at most.
MaxChannels == 4
MaxVideos == 3
MaxGroups == 3

\* ------------------------------------------------------- program constants

max_retries == 3

\* ------------------------------------------------------------------ text

\* str.lower() on the characters the modelled messages use.
LowerChar(c) ==
    CASE c = "L" -> "l"
      [] c = "C" -> "c"
      [] c = "E" -> "e"
      [] c = "F" -> "f"
      [] c = "G" -> "g"
      [] c = "S" -> "s"
      [] OTHER -> c

Lower(s) == [i \in 1..Len(s) |-> LowerChar(s[i])]

\* Python's `kw in s` on strings: kw occurs in s as a contiguous substring.
Contains(kw, s) ==
    \E i \in 0..(Len(s) - Len(kw)) :
        \A j \in 1..Len(kw) : s[i + j] = kw[j]

AuthKeywords ==
    { <<"c","o","o","k","i","e">>,
      <<"e","x","p","i","r","e","d">>,
      <<"a","u","t","h","e","n","t","i","c","a","t","i","o","n">>,
      <<"l","o","g","i","n">> }

\* The mutant classifies without lower-casing the message first.
IsCookieErrorCaseSensitive(e) ==
    \E kw \in AuthKeywords : Contains(kw, e)

\* error_message = str(e).lower(); any(keyword in error_message ...)
IsCookieError(e) ==
    \E kw \in AuthKeywords : Contains(kw, Lower(e))

\* The exception texts the extraction backend raises in the model.
MsgLogin == <<"L","o","g","i","n">>
Msg404 == <<"4","0","4">>

ErrorTexts == {MsgLogin, Msg404}

\* The text of the OSError of a ledger file that cannot be opened.
MsgDenied == <<"d","e","n","i","e","d">>

NoError == <<>>

MsgOnGcs == <<"F","i","l","e"," ","a","l","r","e","a","d","y"," ","o","n"," ","G","C","S">>

\* ------------------------------------------------------------------ input

\* 'youtube.com'
YoutubeDomain == <<"y","o","u","t","u","b","e",".","c","o","m">>

UrlChanA == YoutubeDomain \o <<"/","a">>
UrlChanB == YoutubeDomain \o <<"/","b">>
UrlChanC == YoutubeDomain \o <<"/","c">>
UrlOther == <<"v","i","m","e","o",".","c","o","m">>

\* The entries the extraction backend lists for a channel.  v1 and v2 carry
\* the same uploader and title, so they resolve to the same file and key.
Entries(ch) ==
    IF ch = UrlChanA THEN <<"v1", "v2">>
    ELSE IF ch = UrlChanB THEN <<"v1", "v3">>
    ELSE IF ch = UrlChanC THEN <<"v3">>
    ELSE <<>>

Videos == {"v1", "v2", "v3"}

\* ydl.prepare_filename(info) with the extension replaced by .wav
ExpectedFilename(url) ==
    IF url \in {"v1", "v2"} THEN "f1" ELSE "f2"

Files == {ExpectedFilename(u) : u \in Videos}

\* blob_name = f"{GCS_PREFIX}/{relative_path}"
BlobName(file) == <<"raw_audio", file>>

Blobs == {BlobName(f) : f \in Files}

\* ------------------------------------------------------------------ state

VARIABLES
    mainPc,     \* where the main thread of the run is
    chans,      \* CHANNEL_URLS, the lines of channel_urls.txt
    maxWorkers, \* the max_workers the pool is made with
    ci,         \* index in chans of the channel of the for loop
    bucket,     \* whether initialize_gcs_client returned a bucket
    storage,    \* the blob names present in the GCS bucket
    disk,       \* the files present under DOWNLOAD_DIRECTORY
    dirExists,  \* whether DOWNLOAD_DIRECTORY exists
    csvExists,  \* whether CSV_FILE exists
    ledger,     \* the rows of CSV_FILE, in file order
    resolve,    \* the locals of get_video_urls
    queue,      \* the submitted calls no pool thread has started yet
    futures,    \* url -> the state of its future
    counts,     \* the locals successful_downloads, successful_uploads, failed_downloads
    summaries,  \* the counts of the "Summary:" lines logged so far, one per channel run
    w,          \* pool thread -> the locals of its download_and_upload_video_audio call
    puts,       \* blob name -> how many uploads pool threads completed for it
    faults      \* how many more exceptions the extraction backend may raise

\* The state of helpers/upload_to_gcs.py, the uploader run on its own.
VARIABLES
    uploadPc,      \* where the main thread of upload_to_gcs is
    poolSize,      \* the max_workers of its pool
    wavsOnDisk,    \* the wav files present under source_dir
    foldersOnDisk, \* the folders present under source_dir
    gcs,           \* the blob names present in its bucket
    upload_args,   \* the submitted uploads no pool thread has started yet
    counters,      \* the UploadCounters of the run
    uw             \* pool thread -> the locals of its upload_single_file call

uploadVars == <<uploadPc, poolSize, wavsOnDisk, foldersOnDisk, gcs,
                upload_args, counters, uw>>

\* The state of cookie_monitor.py, run on its own.
VARIABLES
    monitorPc,        \* where run_continuous is
    interval_minutes, \* self.interval_minutes
    max_age_hours,    \* self.max_age_hours
    iteration,        \* the local iteration of run_continuous
    cookieAge,        \* minutes since cookies.txt was written, NoFile without it
    refreshes         \* how many times refresh_cookies was called

monitorVars == <<monitorPc, interval_minutes, max_age_hours, iteration,
                 cookieAge, refreshes>>

\* The state of split.py, run on its own.
VARIABLES
    splitPc,            \* where split_channels_balanced is
    channel_data,       \* the channels and their video counts, in dict order
    num_groups,         \* the number of groups asked for
    sorted_channels,    \* the channels still to distribute, in sorted order
    groups,             \* the groups built so far
    group_video_counts  \* the video count of each group so far

splitVars == <<splitPc, channel_data, num_groups, sorted_channels, groups,
               group_video_counts>>

vars == <<mainPc, chans, maxWorkers, ci, bucket, storage, disk, dirExists,
          csvExists, ledger, resolve, queue, futures, counts, summaries, w,
          puts, faults, uploadVars, monitorVars, splitVars>>

\* The state of download.py.
downloadVars == <<mainPc, chans, maxWorkers, ci, bucket, storage, disk,
                  dirExists, csvExists, ledger, resolve, queue, futures,
                  counts, summaries, w, puts, faults>>

Workers == 1..NumWorkers

\* CSV_HEADERS, as a row
HeaderRow ==
    [timestamp |-> "timestamp", url |-> "url", filename |-> "filename",
     status |-> "status", duration |-> "duration_seconds",
     error |-> <<"e","r","r","o","r","_","m","e","s","s","a","g","e">>]

\* row = [timestamp, url, filename, status, duration_seconds, error_message]
Row(url, filename, status, duration, error) ==
    [timestamp |-> "now", url |-> url, filename |-> filename,
     status |-> status, duration |-> duration, error |-> error]

NoRow == Row("", "", "", "", NoError)

\* The locals of one call, and what the call has done so far: pre, re, up
\* are the results of the two existence checks and of
\* upload_audio_to_gcs; fails holds the texts of the exceptions caught,
\* one per failed attempt; the n* fields count the calls issued to
\* ydl.download, upload_audio_to_gcs, blob.upload_from_filename,
\* os.remove, export_firefox_cookies and the rows written; missed counts
\* the existence checks that answered False for a blob the bucket held,
\* nCookieFiles the times the call wrote cookies.txt.
IdleWorker ==
    [pc |-> "idle", url |-> "", attempt |-> 0,
     row |-> NoRow, file_exists |-> FALSE, result |-> <<FALSE, FALSE>>,
     ret |-> "", pre |-> FALSE, re |-> FALSE, up |-> FALSE,
     fails |-> <<>>,
     nFetch |-> 0, nUpload |-> 0, nPut |-> 0, nRemove |-> 0,
     nRefresh |-> 0, nRows |-> 0, missed |-> 0, nCookieFiles |-> 0]

ZeroCounts == [downloaded |-> 0, uploaded |-> 0, failed |-> 0]

IdleResolve == [attempt |-> 0, fails |-> <<>>, nRefresh |-> 0]

\* A future: its state, and the pair its call returned or whether the call
\* raised.
Future(st, result) == [st |-> st, result |-> result, exc |-> FALSE]

NoFutures == [u \in Videos |-> Future("none", <<FALSE, FALSE>>)]

\* The runs of the model: the lines of channel_urls.txt and the pool size.
Runs ==
    { [chans |-> <<UrlChanA>>, max_workers |-> NumWorkers,
       faults |-> ParallelFaults],
      [chans |-> <<UrlChanB>>, max_workers |-> NumWorkers,
       faults |-> ParallelFaults],
      [chans |-> <<UrlChanB>>, max_workers |-> 1,
       faults |-> ParallelFaults],
      [chans |-> <<UrlOther, UrlChanC, UrlChanC>>, max_workers |-> 1,
       faults |-> SequentialFaults] }

\* The videos and the blob names of a run.
RunVideos(cs) ==
    {Entries(cs[i])[j] : <<i, j>> \in
        {p \in (1..Len(cs)) \X (1..2) : p[2] <= Len(Entries(cs[p[1]]))}}

RunBlobs(cs) == {BlobName(ExpectedFilename(u)) : u \in RunVideos(cs)}

\* The runs of the model with a ledger file that may fail to open; in the
\* run with concurrent calls the ledger is all that fails.
LedgerFaultRuns ==
    { [chans |-> <<UrlChanB>>, max_workers |-> NumWorkers,
       faults |-> 0],
      [chans |-> <<UrlChanB>>, max_workers |-> 1,
       faults |-> ParallelFaults],
      [chans |-> <<UrlOther, UrlChanC, UrlChanC>>, max_workers |-> 1,
       faults |-> SequentialFaults] }

\* upload_to_gcs.py is a script of its own: during a run of download.py it
\* is not running and nothing is under its source_dir yet.
UploaderOff ==
    /\ uploadPc = "off"
    /\ poolSize = NumWorkers
    /\ wavsOnDisk = {}
    /\ foldersOnDisk = {}
    /\ gcs = {}
    /\ upload_args = <<>>
    /\ counters = [uploaded |-> 0, skipped |-> 0, failed |-> 0,
                   folder_files |-> {}]
    /\ uw = [t \in Workers |-> [pc |-> "idle", wav_file |-> <<>>]]

\* cookie_monitor.py is a script of its own, not running during a run of
\* download.py.
MonitorOff ==
    /\ monitorPc = "off"
    /\ interval_minutes = 30
    /\ max_age_hours = 24
    /\ iteration = 0
    /\ cookieAge = 0
    /\ refreshes = 0

\* split.py is a script of its own, run before download.py.
SplitOff ==
    /\ splitPc = "off"
    /\ channel_data = <<>>
    /\ num_groups = 1
    /\ sorted_channels = <<>>
    /\ groups = <<>>
    /\ group_video_counts = <<>>

\* The state when the main block starts, for one of the runs.
InitOf(runs) ==
    /\ mainPc = "init"
    /\ \E r \in runs :
         /\ chans = r.chans
         /\ maxWorkers = r.max_workers
         /\ faults = r.faults
    /\ ci = 1
    /\ bucket = FALSE
    /\ storage = {}
    /\ disk = {}
    /\ dirExists = FALSE
    /\ csvExists = FALSE
    /\ ledger = <<>>
    /\ resolve = IdleResolve
    /\ queue = <<>>
    /\ futures = NoFutures
    /\ counts = ZeroCounts
    /\ summaries = <<>>
    /\ w = [t \in Workers |-> IdleWorker]
    /\ puts = [b \in Blobs |-> 0]
    /\ UploaderOff
    /\ MonitorOff
    /\ SplitOff

Init == InitOf(Runs)

InitLedgerFault == InitOf(LedgerFaultRuns)

\* ------------------------------------------------- write_csv_entry (89-103)

Goto(t, pc) == w' = [w EXCEPT ![t].pc = pc]

\* The call write_csv_entry(...): the row is built (93-94).
CallWriteCsv(rec, row) ==
    [rec EXCEPT !.pc = "csv_exists", !.row = row]

\* file_exists = os.path.exists(CSV_FILE)
CsvExists(t) ==
    /\ w[t].pc = "csv_exists"
    /\ w' = [w EXCEPT ![t].pc = "csv_open", ![t].file_exists = csvExists]
    /\ UNCHANGED <<mainPc, chans, maxWorkers, ci, bucket, storage, disk,
                   dirExists, csvExists, ledger, resolve, queue, futures,
                   counts, summaries, uploadVars, monitorVars, splitVars, puts, faults>>

\* open(CSV_FILE, 'a'): creates the file when it is missing.
CsvOpen(t) ==
    /\ w[t].pc = "csv_open"
    /\ csvExists' = TRUE
    /\ Goto(t, "csv_write")
    /\ UNCHANGED <<mainPc, chans, maxWorkers, ci, bucket, storage, disk,
                   dirExists, ledger, resolve, queue, futures, counts, summaries, uploadVars, monitorVars, splitVars, puts, faults>>

\* What one call appends: the header when the file was missing at the
\* check, then the row.
CsvLines(file_exists, row) ==
    (IF file_exists THEN <<>> ELSE <<HeaderRow>>) \o <<row>>

\* The mutant leaves out the return after the ALREADY_EXISTS row: the call
\* goes on to the download.
AfterCsvFallsThrough(rec) ==
    CASE rec.row.status = "ALREADY_EXISTS" ->
            [rec EXCEPT !.pc = "download"]
      [] rec.row.status = "DOWNLOAD_SUCCESS" ->
            [rec EXCEPT !.pc = "upload"]
      [] OTHER ->
            [rec EXCEPT !.pc = "done", !.result = <<FALSE, FALSE>>,
                        !.ret = "retries_exhausted"]

\* Where the caller goes on after write_csv_entry returns (309, 323, 369).
AfterCsv(rec) ==
    CASE rec.row.status = "ALREADY_EXISTS" ->
            [rec EXCEPT !.pc = "done", !.result = <<TRUE, TRUE>>,
                        !.ret = "already_exists"]
      [] rec.row.status = "DOWNLOAD_SUCCESS" ->
            [rec EXCEPT !.pc = "upload"]
      [] OTHER ->
            [rec EXCEPT !.pc = "done", !.result = <<FALSE, FALSE>>,
                        !.ret = "retries_exhausted"]

\* writer.writerow(CSV_HEADERS), writer.writerow(row) and the close of the
\* file: the buffered lines reach the file in one append.
CsvWrite(t) ==
    /\ w[t].pc = "csv_write"
    /\ ledger' = ledger \o CsvLines(w[t].file_exists, w[t].row)
    /\ w' = [w EXCEPT ![t] = AfterCsv([w[t] EXCEPT !.nRows = @ + 1])]
    /\ UNCHANGED <<mainPc, chans, maxWorkers, ci, bucket, storage, disk,
                   dirExists, csvExists, resolve, queue, futures, counts, summaries, uploadVars, monitorVars, splitVars,
                   puts, faults>>

\* ------------------------------------------------------ blob_exists (125-157)

\* The mutant fails closed: a check that raises reports the blob present.
BlobExistsFailsClosed(b, blob_name) ==
    IF ~b THEN {FALSE} ELSE {blob_name \in storage, TRUE}

\* The values blob_exists can return: False without a bucket; otherwise
\* what blob.exists() reports, or False when the call raises.
BlobExists(b, blob_name) ==
    IF ~b THEN {FALSE} ELSE {blob_name \in storage, FALSE}

\* What a check that answered `present` adds to the missed checks of a call.
Missed(present, blob_name) ==
    IF ~present /\ blob_name \in storage THEN 1 ELSE 0

\* ---------------------------- download_and_upload_video_audio (265-371)

Return(rec, result, ret) ==
    [rec EXCEPT !.pc = "done", !.result = result, !.ret = ret]

\* The mutant hands out the last submitted call while it takes the first
\* one off the queue.
StartTaskTakesLast(t) ==
    /\ t <= maxWorkers
    /\ w[t].pc = "idle"
    /\ \A o \in 1..(t - 1) : w[o].pc # "idle"
    /\ queue # <<>>
    /\ w' = [w EXCEPT ![t] = [IdleWorker EXCEPT !.pc = "extract",
                                                !.url = queue[Len(queue)]]]
    /\ queue' = Tail(queue)
    /\ futures' = [futures EXCEPT ![queue[Len(queue)]].st = "running"]
    /\ UNCHANGED <<mainPc, chans, maxWorkers, ci, bucket, storage, disk,
                   dirExists, csvExists, ledger, resolve, counts, summaries, uploadVars, monitorVars, splitVars, puts, faults>>

\* The mutant lets every thread of the model take calls, whatever
\* max_workers is.
StartTaskUnbounded(t) ==
    /\ w[t].pc = "idle"
    /\ \A o \in 1..(t - 1) : w[o].pc # "idle"
    /\ queue # <<>>
    /\ w' = [w EXCEPT ![t] = [IdleWorker EXCEPT !.pc = "extract",
                                                !.url = Head(queue)]]
    /\ queue' = Tail(queue)
    /\ futures' = [futures EXCEPT ![Head(queue)].st = "running"]
    /\ UNCHANGED <<mainPc, chans, maxWorkers, ci, bucket, storage, disk,
                   dirExists, csvExists, ledger, resolve, counts, summaries, uploadVars, monitorVars, splitVars, puts, faults>>

\* A pool thread takes the next submitted call and enters the retry loop.
\* The threads of a pool are interchangeable: the idle one with the lowest
\* number takes the call.
StartTask(t) ==
    /\ t <= maxWorkers
    /\ w[t].pc = "idle"
    /\ \A o \in 1..(t - 1) : w[o].pc # "idle"
    /\ queue # <<>>
    /\ w' = [w EXCEPT ![t] = [IdleWorker EXCEPT !.pc = "extract",
                                                !.url = Head(queue)]]
    /\ queue' = Tail(queue)
    /\ futures' = [futures EXCEPT ![Head(queue)].st = "running"]
    /\ UNCHANGED <<mainPc, chans, maxWorkers, ci, bucket, storage, disk,
                   dirExists, csvExists, ledger, resolve, counts, summaries, uploadVars, monitorVars, splitVars, puts, faults>>

\* The mutant gives cookie errors a status of their own.
FailedStatusByClass(e) ==
    IF IsCookieError(e) THEN "AUTH_FAILED" ELSE "DOWNLOAD_FAILED"

\* The ledger status of an item whose last attempt failed (368).
FailedStatus(e) == "DOWNLOAD_FAILED"

\* The mutant refreshes the cookies after any failure with attempts left.
WantsRefreshAnyError(e, attempt) ==
    attempt < max_retries - 1

\* Whether the handler asks for fresh cookies (351, 354).
WantsRefresh(e, attempt) ==
    IsCookieError(e) /\ attempt < max_retries - 1

\* The mutant writes the DOWNLOAD_FAILED row after every failed attempt.
OnExceptionLogsEveryFailure(rec, e) ==
    LET caught == [rec EXCEPT !.fails = Append(@, e)] IN
    IF WantsRefresh(e, rec.attempt)
    THEN [caught EXCEPT !.pc = "refresh"]
    ELSE CallWriteCsv(caught,
                      Row(rec.url, "unknown", FailedStatus(e), "elapsed", e))

\* except Exception as e (347-369), up to the call it makes next: the
\* cookie refresh, the ledger write of the last attempt, or the next
\* attempt.
OnException(rec, e) ==
    LET caught == [rec EXCEPT !.fails = Append(@, e)] IN
    IF WantsRefresh(e, rec.attempt)
    THEN [caught EXCEPT !.pc = "refresh"]
    ELSE IF rec.attempt = max_retries - 1
    THEN CallWriteCsv(caught,
                      Row(rec.url, "unknown", FailedStatus(e), "elapsed", e))
    ELSE [caught EXCEPT !.pc = "extract", !.attempt = @ + 1]

\* open(CSV_FILE, 'a') raises (99).  At 308 the except of 310 swallows it
\* and the call goes on to the download; at 320 it reaches the handler of
\* the retry loop; at 368, inside that handler, it leaves the call.
CsvRaise(t) ==
    /\ w[t].pc = "csv_open"
    /\ w' = [w EXCEPT ![t] =
                CASE @.row.status = "ALREADY_EXISTS" -> [@ EXCEPT !.pc = "download"]
                  [] @.row.status = "DOWNLOAD_SUCCESS" -> OnException(@, MsgDenied)
                  [] OTHER -> [@ EXCEPT !.pc = "raised", !.ret = "raised"]]
    /\ UNCHANGED <<mainPc, chans, maxWorkers, ci, bucket, storage, disk,
                   dirExists, csvExists, ledger, resolve, queue, futures,
                   counts, summaries, uploadVars, monitorVars, splitVars, puts, faults>>

\* info = ydl.extract_info(video_url, download=False) (291-294)
ExtractInfo(t) ==
    /\ w[t].pc = "extract"
    /\ \/ /\ Goto(t, "precheck")
          /\ UNCHANGED faults
       \/ /\ w' = [w EXCEPT ![t] = Return(@, <<FALSE, FALSE>>, "no_info")]
          /\ UNCHANGED faults
       \/ /\ faults > 0
          /\ faults' = faults - 1
          /\ \E e \in ErrorTexts : w' = [w EXCEPT ![t] = OnException(@, e)]
    /\ UNCHANGED <<mainPc, chans, maxWorkers, ci, bucket, storage, disk,
                   dirExists, csvExists, ledger, resolve, queue, futures,
                   counts, summaries, uploadVars, monitorVars, splitVars, puts>>

\* The mutant downloads whatever the check before the download reports.
PreCheckAlwaysDownloads(t) ==
    /\ w[t].pc = "precheck"
    /\ \E present \in BlobExists(bucket, BlobName(ExpectedFilename(w[t].url))) :
         w' = [w EXCEPT ![t].pc = "download",
                        ![t].missed = @ + Missed(present,
                             BlobName(ExpectedFilename(w[t].url)))]
    /\ UNCHANGED <<mainPc, chans, maxWorkers, ci, bucket, storage, disk,
                   dirExists, csvExists, ledger, resolve, queue, futures,
                   counts, summaries, uploadVars, monitorVars, splitVars, puts, faults>>

\* The check before the download (301-311).
PreCheck(t) ==
    /\ w[t].pc = "precheck"
    /\ \E present \in BlobExists(bucket, BlobName(ExpectedFilename(w[t].url))) :
         IF present
         THEN w' = [w EXCEPT ![t] =
                      CallWriteCsv([@ EXCEPT !.pre = TRUE],
                                   Row(w[t].url, ExpectedFilename(w[t].url),
                                       "ALREADY_EXISTS", "0", MsgOnGcs))]
         ELSE w' = [w EXCEPT ![t].pc = "download",
                             ![t].missed = @ + Missed(present,
                                  BlobName(ExpectedFilename(w[t].url)))]
    /\ UNCHANGED <<mainPc, chans, maxWorkers, ci, bucket, storage, disk,
                   dirExists, csvExists, ledger, resolve, queue, futures,
                   counts, summaries, uploadVars, monitorVars, splitVars, puts, faults>>

\* ydl.download([video_url]) (314): the file appears, or the backend
\* does nothing ('ignoreerrors': True), or it raises.
Download(t) ==
    /\ w[t].pc = "download"
    /\ \/ /\ disk' = disk \cup {ExpectedFilename(w[t].url)}
          /\ w' = [w EXCEPT ![t].pc = "verify", ![t].nFetch = @ + 1]
          /\ UNCHANGED faults
       \/ /\ disk' = disk
          /\ w' = [w EXCEPT ![t].pc = "verify", ![t].nFetch = @ + 1]
          /\ UNCHANGED faults
       \/ /\ faults > 0
          /\ faults' = faults - 1
          /\ disk' = disk
          /\ \E e \in ErrorTexts :
               w' = [w EXCEPT ![t] =
                       OnException([@ EXCEPT !.nFetch = @ + 1], e)]
    /\ UNCHANGED <<mainPc, chans, maxWorkers, ci, bucket, storage,
                   dirExists, csvExists, ledger, resolve, queue, futures,
                   counts, summaries, uploadVars, monitorVars, splitVars, puts>>

\* The mutant records the download without looking for the file.
VerifyDownloadTrustsFetch(t) ==
    /\ w[t].pc = "verify"
    /\ w' = [w EXCEPT ![t] =
                CallWriteCsv(@, Row(w[t].url, ExpectedFilename(w[t].url),
                                    "DOWNLOAD_SUCCESS", "elapsed", NoError))]
    /\ UNCHANGED <<mainPc, chans, maxWorkers, ci, bucket, storage, disk,
                   dirExists, csvExists, ledger, resolve, queue, futures,
                   counts, summaries, uploadVars, monitorVars, splitVars, puts, faults>>

\* The mutant treats a missing file as a failed attempt.
VerifyDownloadRetriesWhenMissing(t) ==
    /\ w[t].pc = "verify"
    /\ IF ExpectedFilename(w[t].url) \in disk
       THEN w' = [w EXCEPT ![t] =
                    CallWriteCsv(@, Row(w[t].url, ExpectedFilename(w[t].url),
                                        "DOWNLOAD_SUCCESS", "elapsed", NoError))]
       ELSE w' = [w EXCEPT ![t] = OnException(@, Msg404)]
    /\ UNCHANGED <<mainPc, chans, maxWorkers, ci, bucket, storage, disk,
                   dirExists, csvExists, ledger, resolve, queue, futures,
                   counts, summaries, uploadVars, monitorVars, splitVars, puts, faults>>

\* if os.path.exists(expected_filename) (317-320, 343-345)
VerifyDownload(t) ==
    /\ w[t].pc = "verify"
    /\ IF ExpectedFilename(w[t].url) \in disk
       THEN w' = [w EXCEPT ![t] =
                    CallWriteCsv(@, Row(w[t].url, ExpectedFilename(w[t].url),
                                        "DOWNLOAD_SUCCESS", "elapsed", NoError))]
       ELSE w' = [w EXCEPT ![t] = Return(@, <<FALSE, FALSE>>, "file_missing")]
    /\ UNCHANGED <<mainPc, chans, maxWorkers, ci, bucket, storage, disk,
                   dirExists, csvExists, ledger, resolve, queue, futures,
                   counts, summaries, uploadVars, monitorVars, splitVars, puts, faults>>

\* The mutant uploads whatever the existence check of upload_audio_to_gcs
\* reports.
UploadIgnoresCheck(t) ==
    /\ w[t].pc = "upload"
    /\ IF ~bucket
       THEN w' = [w EXCEPT ![t] = Return(@, <<TRUE, FALSE>>, "no_bucket")]
       ELSE \E present \in BlobExists(bucket, BlobName(ExpectedFilename(w[t].url))) :
              w' = [w EXCEPT ![t].pc = "put", ![t].re = present,
                             ![t].nUpload = @ + 1,
                             ![t].missed = @ + Missed(present,
                                  BlobName(ExpectedFilename(w[t].url)))]
    /\ UNCHANGED <<mainPc, chans, maxWorkers, ci, bucket, storage, disk,
                   dirExists, csvExists, ledger, resolve, queue, futures,
                   counts, summaries, uploadVars, monitorVars, splitVars, puts, faults>>

\* The mutant treats a missing bucket like a confirmed upload: the local
\* file is removed.
UploadRemovesWithoutBucket(t) ==
    /\ w[t].pc = "upload"
    /\ IF ~bucket
       THEN w' = [w EXCEPT ![t].pc = "remove"]
       ELSE \E present \in BlobExists(bucket, BlobName(ExpectedFilename(w[t].url))) :
              IF present
              THEN w' = [w EXCEPT ![t].pc = "remove", ![t].re = TRUE,
                                  ![t].up = TRUE, ![t].nUpload = @ + 1]
              ELSE w' = [w EXCEPT ![t].pc = "put", ![t].nUpload = @ + 1,
                                  ![t].missed = @ + Missed(present,
                                       BlobName(ExpectedFilename(w[t].url)))]
    /\ UNCHANGED <<mainPc, chans, maxWorkers, ci, bucket, storage, disk,
                   dirExists, csvExists, ledger, resolve, queue, futures,
                   counts, summaries, uploadVars, monitorVars, splitVars, puts, faults>>

\* if bucket: upload_audio_to_gcs(...) up to its existence check (323-328,
\* 171-181); without a bucket the file is kept (340-342).
Upload(t) ==
    /\ w[t].pc = "upload"
    /\ IF ~bucket
       THEN w' = [w EXCEPT ![t] = Return(@, <<TRUE, FALSE>>, "no_bucket")]
       ELSE \E present \in BlobExists(bucket, BlobName(ExpectedFilename(w[t].url))) :
              IF present
              THEN w' = [w EXCEPT ![t].pc = "remove", ![t].re = TRUE,
                                  ![t].up = TRUE, ![t].nUpload = @ + 1]
              ELSE w' = [w EXCEPT ![t].pc = "put", ![t].nUpload = @ + 1,
                                  ![t].missed = @ + Missed(present,
                                       BlobName(ExpectedFilename(w[t].url)))]
    /\ UNCHANGED <<mainPc, chans, maxWorkers, ci, bucket, storage, disk,
                   dirExists, csvExists, ledger, resolve, queue, futures,
                   counts, summaries, uploadVars, monitorVars, splitVars, puts, faults>>

\* The mutant removes the local file whatever upload_audio_to_gcs returns.
PutThenAlwaysRemove(t) ==
    /\ w[t].pc = "put"
    /\ \/ /\ ExpectedFilename(w[t].url) \in disk
          /\ storage' = storage \cup {BlobName(ExpectedFilename(w[t].url))}
          /\ puts' = [puts EXCEPT ![BlobName(ExpectedFilename(w[t].url))] = @ + 1]
          /\ w' = [w EXCEPT ![t].pc = "remove", ![t].up = TRUE,
                            ![t].nPut = @ + 1]
       \/ /\ UNCHANGED <<storage, puts>>
          /\ w' = [w EXCEPT ![t].pc = "remove", ![t].nPut = @ + 1]
    /\ UNCHANGED <<mainPc, chans, maxWorkers, ci, bucket, disk, dirExists,
                   csvExists, ledger, resolve, queue, futures, counts, summaries, uploadVars, monitorVars, splitVars, faults>>

\* The mutant lets the exception of the upload reach the handler of the
\* retry loop.
PutFailureRetries(t) ==
    /\ w[t].pc = "put"
    /\ \/ /\ ExpectedFilename(w[t].url) \in disk
          /\ storage' = storage \cup {BlobName(ExpectedFilename(w[t].url))}
          /\ puts' = [puts EXCEPT ![BlobName(ExpectedFilename(w[t].url))] = @ + 1]
          /\ w' = [w EXCEPT ![t].pc = "remove", ![t].up = TRUE,
                            ![t].nPut = @ + 1]
       \/ /\ UNCHANGED <<storage, puts>>
          /\ w' = [w EXCEPT ![t] = OnException([@ EXCEPT !.nPut = @ + 1],
                                               Msg404)]
    /\ UNCHANGED <<mainPc, chans, maxWorkers, ci, bucket, disk, dirExists,
                   csvExists, ledger, resolve, queue, futures, counts, summaries, uploadVars, monitorVars, splitVars, faults>>

\* blob.upload_from_filename(...) (199-210): the blob is written, or the
\* call raises (always so when the local file is gone) and
\* upload_audio_to_gcs returns False (334-336).
Put(t) ==
    /\ w[t].pc = "put"
    /\ \/ /\ ExpectedFilename(w[t].url) \in disk
          /\ storage' = storage \cup {BlobName(ExpectedFilename(w[t].url))}
          /\ puts' = [puts EXCEPT ![BlobName(ExpectedFilename(w[t].url))] = @ + 1]
          /\ w' = [w EXCEPT ![t].pc = "remove", ![t].up = TRUE,
                            ![t].nPut = @ + 1]
       \/ /\ UNCHANGED <<storage, puts>>
          /\ w' = [w EXCEPT ![t] = Return([@ EXCEPT !.nPut = @ + 1],
                                          <<TRUE, FALSE>>, "upload_failed")]
    /\ UNCHANGED <<mainPc, chans, maxWorkers, ci, bucket, disk, dirExists,
                   csvExists, ledger, resolve, queue, futures, counts, summaries, uploadVars, monitorVars, splitVars, faults>>

\* The mutant lets the exception of os.remove reach the handler of the
\* retry loop.
RemoveFailureRetries(t) ==
    /\ w[t].pc = "remove"
    /\ IF ExpectedFilename(w[t].url) \in disk
       THEN /\ disk' = disk \ {ExpectedFilename(w[t].url)}
            /\ w' = [w EXCEPT ![t] = Return([@ EXCEPT !.nRemove = @ + 1],
                                            <<TRUE, TRUE>>, "uploaded")]
       ELSE /\ disk' = disk
            /\ w' = [w EXCEPT ![t] = OnException([@ EXCEPT !.nRemove = @ + 1],
                                                 Msg404)]
    /\ UNCHANGED <<mainPc, chans, maxWorkers, ci, bucket, storage,
                   dirExists, csvExists, ledger, resolve, queue, futures,
                   counts, summaries, uploadVars, monitorVars, splitVars, puts, faults>>

\* os.remove(expected_filename) (331-333); when the file is gone it raises
\* and the handler of 337-339 returns.
Remove(t) ==
    /\ w[t].pc = "remove"
    /\ IF ExpectedFilename(w[t].url) \in disk
       THEN /\ disk' = disk \ {ExpectedFilename(w[t].url)}
            /\ w' = [w EXCEPT ![t] = Return([@ EXCEPT !.nRemove = @ + 1],
                                            <<TRUE, TRUE>>, "uploaded")]
       ELSE /\ disk' = disk
            /\ w' = [w EXCEPT ![t] = Return([@ EXCEPT !.nRemove = @ + 1],
                                            <<TRUE, FALSE>>, "remove_failed")]
    /\ UNCHANGED <<mainPc, chans, maxWorkers, ci, bucket, storage,
                   dirExists, csvExists, ledger, resolve, queue, futures,
                   counts, summaries, uploadVars, monitorVars, splitVars, puts, faults>>

\* The mutant repeats the attempt after a refresh instead of going on to
\* the next one.
RefreshCookiesSameAttempt(t) ==
    /\ w[t].pc = "refresh"
    /\ \E ok \in BOOLEAN :
         w' = [w EXCEPT ![t].pc = "extract", ![t].nRefresh = @ + 1,
                        ![t].nCookieFiles = IF ok THEN @ + 1 ELSE @]
    /\ UNCHANGED <<mainPc, chans, maxWorkers, ci, bucket, storage, disk,
                   dirExists, csvExists, ledger, resolve, queue, futures,
                   counts, summaries, uploadVars, monitorVars, splitVars, puts, faults>>

\* The mutant lets the exception of the cookie export leave the call.
RefreshCookiesFailureEscapes(t) ==
    /\ w[t].pc = "refresh"
    /\ \/ w' = [w EXCEPT ![t].pc = "extract", ![t].attempt = @ + 1,
                         ![t].nRefresh = @ + 1, ![t].nCookieFiles = @ + 1]
       \/ w' = [w EXCEPT ![t].pc = "raised", ![t].nRefresh = @ + 1]
    /\ UNCHANGED <<mainPc, chans, maxWorkers, ci, bucket, storage, disk,
                   dirExists, csvExists, ledger, resolve, queue, futures,
                   counts, summaries, uploadVars, monitorVars, splitVars, puts, faults>>

\* export_firefox_cookies() (355-362): it returns and the loop continues,
\* or it raises and the loop goes on with the cookies it has.
RefreshCookies(t) ==
    /\ w[t].pc = "refresh"
    /\ \E ok \in BOOLEAN :
         w' = [w EXCEPT ![t].pc = "extract", ![t].attempt = @ + 1,
                        ![t].nRefresh = @ + 1,
                        ![t].nCookieFiles = IF ok THEN @ + 1 ELSE @]
    /\ UNCHANGED <<mainPc, chans, maxWorkers, ci, bucket, storage, disk,
                   dirExists, csvExists, ledger, resolve, queue, futures,
                   counts, summaries, uploadVars, monitorVars, splitVars, puts, faults>>

\* export_firefox_cookies() step by step (72-87): the cookies are loaded
\* from the browser and cookies.txt is opened with 'w', which empties it;
\* when the load raises the file is not touched and the loop goes on.
RefreshOpen(t) ==
    /\ w[t].pc = "refresh"
    /\ \/ w' = [w EXCEPT ![t].pc = "refresh_write", ![t].nRefresh = @ + 1]
       \/ w' = [w EXCEPT ![t].pc = "extract", ![t].attempt = @ + 1,
                         ![t].nRefresh = @ + 1]
    /\ UNCHANGED <<mainPc, chans, maxWorkers, ci, bucket, storage, disk,
                   dirExists, csvExists, ledger, resolve, queue, futures,
                   counts, summaries, uploadVars, monitorVars, splitVars, puts, faults>>

\* The lines of cookies.txt are written and the file is closed (76-87).
RefreshWrite(t) ==
    /\ w[t].pc = "refresh_write"
    /\ w' = [w EXCEPT ![t].pc = "extract", ![t].attempt = @ + 1,
                      ![t].nCookieFiles = @ + 1]
    /\ UNCHANGED <<mainPc, chans, maxWorkers, ci, bucket, storage, disk,
                   dirExists, csvExists, ledger, resolve, queue, futures,
                   counts, summaries, uploadVars, monitorVars, splitVars, puts, faults>>

\* The call returns or raises: its future holds the result or the
\* exception, and the thread is free.
Finish(t) ==
    /\ w[t].pc \in {"done", "raised"}
    /\ futures' = [futures EXCEPT ![w[t].url] =
                      [Future("done", w[t].result) EXCEPT
                          !.exc = (w[t].pc = "raised")]]
    /\ w' = [w EXCEPT ![t] = IdleWorker]
    /\ UNCHANGED <<mainPc, chans, maxWorkers, ci, bucket, storage, disk,
                   dirExists, csvExists, ledger, resolve, queue, counts, summaries, uploadVars, monitorVars, splitVars,
                   puts, faults>>

\* ------------------------------------------------ get_video_urls (212-263)

\* The mutant goes on to another attempt after the last one failed.
OnResolveExceptionKeepsTrying(rec, e) ==
    LET caught == [rec EXCEPT !.fails = Append(@, e)] IN
    IF WantsRefresh(e, rec.attempt)
    THEN [pc |-> "resolve_refresh", rec |-> caught]
    ELSE [pc |-> "resolve", rec |-> [caught EXCEPT !.attempt = @ + 1]]

\* The mutant refreshes the cookies after every failure with attempts left.
OnResolveExceptionRefreshesAlways(rec, e) ==
    LET caught == [rec EXCEPT !.fails = Append(@, e)] IN
    IF rec.attempt < max_retries - 1
    THEN [pc |-> "resolve_refresh", rec |-> caught]
    ELSE [pc |-> "return", rec |-> caught]

\* except Exception as e (241-261), up to the call made next; "return"
\* stands for the return [] of the last attempt.
OnResolveException(rec, e) ==
    LET caught == [rec EXCEPT !.fails = Append(@, e)] IN
    IF WantsRefresh(e, rec.attempt)
    THEN [pc |-> "resolve_refresh", rec |-> caught]
    ELSE IF rec.attempt = max_retries - 1
    THEN [pc |-> "return", rec |-> caught]
    ELSE [pc |-> "resolve", rec |-> [caught EXCEPT !.attempt = @ + 1]]

\* The mutant submits the calls without making the download directory.
ResolveChannelWithoutMakedirs ==
    /\ mainPc = "resolve"
    /\ \/ /\ LET video_urls == Entries(chans[ci]) IN
             IF video_urls = <<>>
             THEN /\ ci' = ci + 1
                  /\ mainPc' = "loop"
                  /\ UNCHANGED <<dirExists, queue, futures, counts, summaries, uploadVars, monitorVars, splitVars>>
             ELSE /\ dirExists' = dirExists
                  /\ queue' = video_urls
                  /\ futures' = [u \in Videos |->
                                   IF \E i \in 1..Len(video_urls) : video_urls[i] = u
                                   THEN Future("pending", <<FALSE, FALSE>>)
                                   ELSE Future("none", <<FALSE, FALSE>>)]
                  /\ counts' = ZeroCounts
                  /\ UNCHANGED <<summaries, uploadVars, monitorVars, splitVars>>
                  /\ mainPc' = "collect"
                  /\ UNCHANGED ci
          /\ UNCHANGED <<resolve, faults>>
       \/ /\ ci' = ci + 1
          /\ mainPc' = "loop"
          /\ UNCHANGED <<resolve, dirExists, queue, futures, counts, summaries, uploadVars, monitorVars, splitVars, faults>>
       \/ /\ faults > 0
          /\ faults' = faults - 1
          /\ \E e \in ErrorTexts :
               LET next == OnResolveException(resolve, e) IN
               /\ resolve' = next.rec
               /\ IF next.pc = "return"
                  THEN ci' = ci + 1 /\ mainPc' = "loop"
                  ELSE ci' = ci /\ mainPc' = next.pc
          /\ UNCHANGED <<dirExists, queue, futures, counts, summaries, uploadVars, monitorVars, splitVars>>
    /\ UNCHANGED <<chans, maxWorkers, bucket, storage, disk, csvExists,
                   ledger, w, puts>>

\* ydl.extract_info(channel_url, download=False) and what
\* download_channel_audio_parallel does with the list (229-239, 380-398):
\* without urls it returns; otherwise it makes the download directory and
\* submits one call per url.
ResolveChannel ==
    /\ mainPc = "resolve"
    /\ \/ /\ LET video_urls == Entries(chans[ci]) IN
             IF video_urls = <<>>
             THEN /\ ci' = ci + 1
                  /\ mainPc' = "loop"
                  /\ UNCHANGED <<dirExists, queue, futures, counts, summaries, uploadVars, monitorVars, splitVars>>
             ELSE /\ dirExists' = TRUE
                  /\ queue' = video_urls
                  /\ futures' = [u \in Videos |->
                                   IF \E i \in 1..Len(video_urls) : video_urls[i] = u
                                   THEN Future("pending", <<FALSE, FALSE>>)
                                   ELSE Future("none", <<FALSE, FALSE>>)]
                  /\ counts' = ZeroCounts
                  /\ UNCHANGED <<summaries, uploadVars, monitorVars, splitVars>>
                  /\ mainPc' = "collect"
                  /\ UNCHANGED ci
          /\ UNCHANGED <<resolve, faults>>
       \/ /\ ci' = ci + 1
          /\ mainPc' = "loop"
          /\ UNCHANGED <<resolve, dirExists, queue, futures, counts, summaries, uploadVars, monitorVars, splitVars, faults>>
       \/ /\ faults > 0
          /\ faults' = faults - 1
          /\ \E e \in ErrorTexts :
               LET next == OnResolveException(resolve, e) IN
               /\ resolve' = next.rec
               /\ IF next.pc = "return"
                  THEN ci' = ci + 1 /\ mainPc' = "loop"
                  ELSE ci' = ci /\ mainPc' = next.pc
          /\ UNCHANGED <<dirExists, queue, futures, counts, summaries, uploadVars, monitorVars, splitVars>>
    /\ UNCHANGED <<chans, maxWorkers, bucket, storage, disk, csvExists,
                   ledger, w, puts>>

\* export_firefox_cookies() (248-256)
ResolveRefresh ==
    /\ mainPc = "resolve_refresh"
    /\ \E ok \in BOOLEAN :
         resolve' = [resolve EXCEPT !.attempt = @ + 1, !.nRefresh = @ + 1]
    /\ mainPc' = "resolve"
    /\ UNCHANGED <<chans, maxWorkers, ci, bucket, storage, disk, dirExists,
                   csvExists, ledger, queue, futures, counts, summaries, uploadVars, monitorVars, splitVars, w, puts, faults>>

\* ------------------------- download_channel_audio_parallel (396-417)

\* The mutant counts an uploaded item as an upload only, not as a download.
CountUploadOnly(c, result) ==
    IF result[1]
    THEN IF result[2]
         THEN [c EXCEPT !.uploaded = @ + 1]
         ELSE [c EXCEPT !.downloaded = @ + 1]
    ELSE [c EXCEPT !.failed = @ + 1]

\* DownloadCounters (52-69), the counters of the whole run: nothing makes
\* an instance of the class and nothing calls increment_downloaded,
\* increment_uploaded or increment_failed, so the only value the three
\* counters have is the one __init__ gives them (54-56).
DownloadCounters == [downloaded |-> 0, uploaded |-> 0, failed |-> 0]

\* What one collected result adds to the counters (403-409).
Count(c, result) ==
    IF result[1]
    THEN [c EXCEPT !.downloaded = @ + 1,
                   !.uploaded = IF result[2] THEN @ + 1 ELSE @]
    ELSE [c EXCEPT !.failed = @ + 1]

\* The mutant has no except around future.result(): the exception of a
\* call is not counted.
CountFutureDropsRaised(c, future) ==
    IF future.exc
    THEN c
    ELSE Count(c, future.result)

\* What one turn of the loop adds: future.result() returns the pair, or
\* raises the exception of the call, which counts as one failure (402-412).
CountFuture(c, future) ==
    IF future.exc
    THEN [c EXCEPT !.failed = @ + 1]
    ELSE Count(c, future.result)

\* One turn of the as_completed loop.
Collect ==
    /\ mainPc = "collect"
    /\ \E u \in Videos :
         /\ futures[u].st = "done"
         /\ counts' = CountFuture(counts, futures[u])
         /\ UNCHANGED <<summaries, uploadVars, monitorVars, splitVars>>
         /\ futures' = [futures EXCEPT ![u].st = "collected"]
    /\ UNCHANGED <<mainPc, chans, maxWorkers, ci, bucket, storage, disk,
                   dirExists, csvExists, ledger, resolve, queue, w, puts, faults>>

\* The mutant returns from the channel run without waiting for the
\* futures.
ChannelDoneWithoutWaiting ==
    /\ mainPc = "collect"
    /\ summaries' = Append(summaries, counts)
    /\ ci' = ci + 1
    /\ mainPc' = "loop"
    /\ UNCHANGED <<chans, maxWorkers, bucket, storage, disk, dirExists,
                   csvExists, ledger, resolve, queue, futures, counts, w,
                   puts, faults, uploadVars, monitorVars, splitVars>>

\* Every future is collected, the executor is shut down, the summary of
\* the channel is logged with the three locals and the call returns
\* (414-417).
ChannelDone ==
    /\ mainPc = "collect"
    /\ \A u \in Videos : futures[u].st \in {"none", "collected"}
    /\ summaries' = Append(summaries, counts)
    /\ ci' = ci + 1
    /\ mainPc' = "loop"
    /\ UNCHANGED <<chans, maxWorkers, bucket, storage, disk, dirExists,
                   csvExists, ledger, resolve, queue, futures, counts, w,
                   puts, faults, uploadVars, monitorVars, splitVars>>

\* ------------------------------------------------- the main block (419-435)

\* storage_client, bucket = initialize_gcs_client() (105-123, 424)
InitializeGcs ==
    /\ mainPc = "init"
    /\ bucket' \in BOOLEAN
    /\ mainPc' = "loop"
    /\ UNCHANGED <<chans, maxWorkers, ci, storage, disk, dirExists,
                   csvExists, ledger, resolve, queue, futures, counts, summaries, uploadVars, monitorVars, splitVars, w,
                   puts, faults>>

\* for url in CHANNEL_URLS (428-432)
MainLoop ==
    /\ mainPc = "loop"
    /\ IF ci > Len(chans)
       THEN /\ mainPc' = "finished"
            /\ UNCHANGED <<ci, resolve>>
       ELSE IF ~Contains(YoutubeDomain, chans[ci])
       THEN /\ ci' = ci + 1
            /\ UNCHANGED <<mainPc, resolve, faults>>
       ELSE /\ mainPc' = "resolve"
            /\ resolve' = IdleResolve
            /\ UNCHANGED ci
    /\ UNCHANGED <<chans, maxWorkers, bucket, storage, disk, dirExists,
                   csvExists, ledger, queue, futures, counts, summaries, uploadVars, monitorVars, splitVars, w, puts, faults>>

\* ------------------------------------------------- the operator's Ctrl-C

\* KeyboardInterrupt is raised in the main thread.  It is not an Exception,
\* so no handler of the run catches it (241, 410).  In get_video_urls or
\* export_firefox_cookies it leaves the channel run and the for loop of 428
\* at once.  In the loop over as_completed (400) it leaves the with block
\* of 396, whose exit is executor.shutdown(wait=True): the pool threads
\* are not told anything and the submitted calls are not cancelled.
Interrupt ==
    /\ mainPc \in {"resolve", "resolve_refresh", "collect"}
    /\ mainPc' = IF mainPc = "collect" THEN "shutdown" ELSE "interrupted"
    /\ UNCHANGED <<chans, maxWorkers, ci, bucket, storage, disk, dirExists,
                   csvExists, ledger, resolve, queue, futures, counts,
                   summaries, uploadVars, monitorVars, splitVars, w, puts, faults>>

\* shutdown(wait=True) returns once the pool threads have run every
\* submitted call and ended; the KeyboardInterrupt then leaves
\* download_channel_audio_parallel before its summary (414-417) and the
\* for loop of 428, and the process ends with it.
Shutdown ==
    /\ mainPc = "shutdown"
    /\ queue = <<>>
    /\ \A t \in Workers : w[t].pc = "idle"
    /\ mainPc' = "interrupted"
    /\ UNCHANGED <<chans, maxWorkers, ci, bucket, storage, disk, dirExists,
                   csvExists, ledger, resolve, queue, futures, counts,
                   summaries, uploadVars, monitorVars, splitVars, w, puts, faults>>

\* -------------------------------------------------------- the environment

\* Another process uploads one of the run's blobs to the bucket.
ExternalPut ==
    /\ mainPc \notin {"init", "finished"}
    /\ bucket
    /\ \E b \in RunBlobs(chans) \ storage : storage' = storage \cup {b}
    /\ UNCHANGED <<mainPc, chans, maxWorkers, ci, bucket, disk, dirExists,
                   csvExists, ledger, resolve, queue, futures, counts, summaries, uploadVars, monitorVars, splitVars, w,
                   puts, faults>>

\* --------------------------------------- helpers/upload_to_gcs.py (1-272)

\* source_dir, and the folders yt-dlp made under it, one per uploader
\* (download.py:282).
SourceDir == "../podcasts"

UploaderFolders == {"../podcasts/ch1", "../podcasts/ch2"}

\* The wav files a run may find, each with the folder it is in, in the
\* order glob lists them (219).
WavFiles ==
    << <<"../podcasts/ch1", "a.wav">>,
       <<"../podcasts/ch1", "b.wav">>,
       <<"../podcasts/ch2", "c.wav">> >>

AllWavs == {WavFiles[i] : i \in 1..Len(WavFiles)}

\* folder_path = os.path.dirname(wav_file) (118)
FolderPath(wav_file) == wav_file[1]

\* blob_name = f"{prefix}/{relative_path}" (112-115)
UploadBlobName(wav_file) == <<"raw_audio", wav_file>>

IdleUploader == [pc |-> "idle", wav_file |-> <<>>]

\* UploadCounters.add_file_to_folder (48-53).  folder_files is kept as the
\* set of the tracked files, each carrying its folder: a folder is a key of
\* the dict exactly when one of its files is tracked.
add_file_to_folder(c, folder_path, file_path) ==
    [c EXCEPT !.folder_files = @ \cup {file_path}]

\* The state when upload_to_gcs is called: some of the wav files are under
\* source_dir, in their folders, and some blobs are on GCS already.
InitUploader ==
    /\ mainPc = "finished"
    /\ chans = <<>>
    /\ maxWorkers = NumWorkers
    /\ faults = 0
    /\ ci = 1
    /\ bucket = FALSE
    /\ storage = {}
    /\ disk = {}
    /\ dirExists = FALSE
    /\ csvExists = FALSE
    /\ ledger = <<>>
    /\ resolve = IdleResolve
    /\ queue = <<>>
    /\ futures = NoFutures
    /\ counts = ZeroCounts
    /\ summaries = <<>>
    /\ w = [t \in Workers |-> IdleWorker]
    /\ puts = [b \in Blobs |-> 0]
    /\ uploadPc = "connect"
    /\ poolSize \in 1..NumWorkers
    /\ wavsOnDisk \in SUBSET AllWavs
    /\ foldersOnDisk \in {{}, {SourceDir} \cup UploaderFolders}
    /\ wavsOnDisk # {} => foldersOnDisk # {}
    /\ gcs \in SUBSET {UploadBlobName(f) : f \in AllWavs}
    /\ upload_args = <<>>
    /\ counters = [uploaded |-> 0, skipped |-> 0, failed |-> 0,
                   folder_files |-> {}]
    /\ uw = [t \in Workers |-> IdleUploader]
    /\ MonitorOff
    /\ SplitOff

\* storage.Client() and storage_client.bucket(bucket_name) (192-211): the
\* run goes on, or returns when the client cannot be made.
UploaderConnect ==
    /\ uploadPc = "connect"
    /\ uploadPc' \in {"scan", "returned"}
    /\ UNCHANGED <<poolSize, wavsOnDisk, foldersOnDisk, gcs, upload_args,
                   counters, uw>>
    /\ UNCHANGED <<downloadVars, monitorVars, splitVars>>

\* The source directory is looked for and its wav files are listed
\* (213-224); the UploadCounters are made and every file is submitted to
\* the pool (226-243).
UploaderScan ==
    /\ uploadPc = "scan"
    /\ IF SourceDir \notin foldersOnDisk \/ wavsOnDisk = {}
       THEN /\ uploadPc' = "returned"
            /\ UNCHANGED upload_args
       ELSE /\ uploadPc' = "pool"
            /\ upload_args' = SelectSeq(WavFiles, LAMBDA f : f \in wavsOnDisk)
    /\ UNCHANGED <<poolSize, wavsOnDisk, foldersOnDisk, gcs, counters, uw>>
    /\ UNCHANGED <<downloadVars, monitorVars, splitVars>>

\* A pool thread takes the next submitted file and tracks it under its
\* folder (108-119).  The idle thread with the lowest number takes it.
UploaderStart(t) ==
    /\ uploadPc = "pool"
    /\ t <= poolSize
    /\ uw[t].pc = "idle"
    /\ \A o \in 1..(t - 1) : uw[o].pc # "idle"
    /\ upload_args # <<>>
    /\ upload_args' = Tail(upload_args)
    /\ counters' = add_file_to_folder(counters, FolderPath(Head(upload_args)),
                                      Head(upload_args))
    /\ uw' = [uw EXCEPT ![t] = [pc |-> "blob_exists",
                               wav_file |-> Head(upload_args)]]
    /\ UNCHANGED <<uploadPc, poolSize, wavsOnDisk, foldersOnDisk, gcs>>
    /\ UNCHANGED <<downloadVars, monitorVars, splitVars>>

\* blob_exists(bucket, blob_name) (69-99, 122): the answer of GCS, or False
\* when the check raises.
UploaderBlobExists(t) ==
    /\ uw[t].pc = "blob_exists"
    /\ \E exists \in {UploadBlobName(uw[t].wav_file) \in gcs, FALSE} :
         uw' = [uw EXCEPT ![t].pc = IF exists THEN "remove_skipped"
                                              ELSE "upload"]
    /\ UNCHANGED <<uploadPc, poolSize, wavsOnDisk, foldersOnDisk, gcs,
                   upload_args, counters>>
    /\ UNCHANGED <<downloadVars, monitorVars, splitVars>>

\* The mutant removes the local file although the upload raised.
UploaderUploadFailureRemoves(t) ==
    /\ uw[t].pc = "upload"
    /\ \/ /\ uw[t].wav_file \in wavsOnDisk
          /\ gcs' = gcs \cup {UploadBlobName(uw[t].wav_file)}
          /\ uw' = [uw EXCEPT ![t].pc = "remove_uploaded"]
          /\ UNCHANGED counters
       \/ /\ uw' = [uw EXCEPT ![t].pc = "remove_uploaded"]
          /\ UNCHANGED <<gcs, counters>>
    /\ UNCHANGED <<uploadPc, poolSize, wavsOnDisk, foldersOnDisk, upload_args>>
    /\ UNCHANGED <<downloadVars, monitorVars, splitVars>>

\* blob.upload_from_filename(wav_file, ...) (145-149): the blob is on GCS,
\* or the call raises and the handler counts a failure (155-157).
UploaderUpload(t) ==
    /\ uw[t].pc = "upload"
    /\ \/ /\ uw[t].wav_file \in wavsOnDisk
          /\ gcs' = gcs \cup {UploadBlobName(uw[t].wav_file)}
          /\ uw' = [uw EXCEPT ![t].pc = "remove_uploaded"]
          /\ UNCHANGED counters
       \/ /\ counters' = [counters EXCEPT !.failed = @ + 1]
          /\ uw' = [uw EXCEPT ![t] = IdleUploader]
          /\ UNCHANGED gcs
    /\ UNCHANGED <<uploadPc, poolSize, wavsOnDisk, foldersOnDisk, upload_args>>
    /\ UNCHANGED <<downloadVars, monitorVars, splitVars>>

\* os.remove(wav_file) and the count of the file, skipped (125-126) or
\* uploaded (152-153); or os.remove raises and the handler counts a failure
\* (155-157).  The call returns: nothing looks at the folder of the file.
UploaderRemove(t) ==
    /\ uw[t].pc \in {"remove_skipped", "remove_uploaded"}
    /\ \/ /\ uw[t].wav_file \in wavsOnDisk
          /\ wavsOnDisk' = wavsOnDisk \ {uw[t].wav_file}
          /\ counters' = IF uw[t].pc = "remove_skipped"
                         THEN [counters EXCEPT !.skipped = @ + 1]
                         ELSE [counters EXCEPT !.uploaded = @ + 1]
       \/ /\ counters' = [counters EXCEPT !.failed = @ + 1]
          /\ UNCHANGED wavsOnDisk
    /\ uw' = [uw EXCEPT ![t] = IdleUploader]
    /\ UNCHANGED <<uploadPc, poolSize, foldersOnDisk, gcs, upload_args>>
    /\ UNCHANGED <<downloadVars, monitorVars, splitVars>>

\* Every future is done: the pool is shut down and the summary is logged
\* (245-258).  delete_source is False (175, 267), so the source directory
\* is left as it is (260-262).
UploaderSummary ==
    /\ uploadPc = "pool"
    /\ upload_args = <<>>
    /\ \A t \in Workers : uw[t].pc = "idle"
    /\ uploadPc' = "done"
    /\ UNCHANGED <<poolSize, wavsOnDisk, foldersOnDisk, gcs, upload_args,
                   counters, uw>>
    /\ UNCHANGED <<downloadVars, monitorVars, splitVars>>

NextUploader ==
    \/ UploaderConnect
    \/ UploaderScan
    \/ UploaderSummary
    \/ \E t \in Workers :
         \/ UploaderStart(t)
         \/ UploaderBlobExists(t)
         \/ UploaderUpload(t)
         \/ UploaderRemove(t)

\* A run of the uploader.
SpecUploader == InitUploader /\ [][NextUploader]_vars

\* ------------------------------------------------ cookie_monitor.py (1-164)

\* download.py is not running.
DownloaderOff ==
    /\ mainPc = "finished"
    /\ chans = <<>>
    /\ maxWorkers = NumWorkers
    /\ faults = 0
    /\ ci = 1
    /\ bucket = FALSE
    /\ storage = {}
    /\ disk = {}
    /\ dirExists = FALSE
    /\ csvExists = FALSE
    /\ ledger = <<>>
    /\ resolve = IdleResolve
    /\ queue = <<>>
    /\ futures = NoFutures
    /\ counts = ZeroCounts
    /\ summaries = <<>>
    /\ w = [t \in Workers |-> IdleWorker]
    /\ puts = [b \in Blobs |-> 0]

\* The age of a cookies.txt that does not exist: float('inf') (42-43).
NoFile == -1

\* The minutes time.sleep(300) takes (119).
RetryMinutes == 5

\* should_refresh_cookies (49-57) on get_cookie_age (40-47): the age in
\* hours is at least max_age_hours; a missing file is infinitely old.
should_refresh_cookies(age, max_age) ==
    age = NoFile \/ age >= max_age * 60

\* The age of the file after so many minutes more.
Aged(age, minutes) == IF age = NoFile THEN NoFile ELSE age + minutes

\* The state when run_continuous is entered (90-96): the monitor was made
\* with some --interval and --max-age (126-140) and cookies.txt is absent
\* or of some age.
InitMonitor ==
    /\ DownloaderOff
    /\ UploaderOff
    /\ SplitOff
    /\ monitorPc = "loop"
    /\ interval_minutes \in {30, 60}
    /\ max_age_hours \in {1, 24}
    /\ iteration = 0
    /\ cookieAge \in {NoFile, 0, 45, 1440}
    /\ refreshes = 0

\* One turn of the while loop up to the end of the check (98-103, 79-88):
\* run_once asks should_refresh_cookies, and goes to refresh_cookies or
\* logs that the cookies are fresh and returns True; or os.path.getmtime
\* raises and the handler of 116 takes over.
MonitorIterate ==
    /\ monitorPc = "loop"
    /\ iteration < MaxIterations
    /\ iteration' = iteration + 1
    /\ \/ monitorPc' = IF should_refresh_cookies(cookieAge, max_age_hours)
                       THEN "refresh"
                       ELSE "sleep"
       \/ /\ cookieAge # NoFile
          /\ monitorPc' = "retry_sleep"
    /\ UNCHANGED <<interval_minutes, max_age_hours, cookieAge, refreshes>>
    /\ UNCHANGED <<downloadVars, uploadVars, splitVars>>

\* refresh_cookies (59-77): export_firefox_cookies writes cookies.txt anew;
\* or it raises before it opens the file, which stays as it is; or it
\* raises once the file is open, which is then new but incomplete.  The
\* exception is caught (75-77) and run_once returns False.
MonitorRefresh ==
    /\ monitorPc = "refresh"
    /\ refreshes' = refreshes + 1
    /\ \E outcome \in {"exported", "load_failed", "write_failed"} :
         cookieAge' = IF outcome = "load_failed" THEN cookieAge ELSE 0
    /\ monitorPc' = "sleep"
    /\ UNCHANGED <<interval_minutes, max_age_hours, iteration>>
    /\ UNCHANGED <<downloadVars, uploadVars, splitVars>>

\* time.sleep(self.interval_minutes * 60) (108-110)
MonitorSleep ==
    /\ monitorPc = "sleep"
    /\ cookieAge' = Aged(cookieAge, interval_minutes)
    /\ monitorPc' = "loop"
    /\ UNCHANGED <<interval_minutes, max_age_hours, iteration, refreshes>>
    /\ UNCHANGED <<downloadVars, uploadVars, splitVars>>

\* The handler of an unexpected error: time.sleep(300) (116-119)
MonitorRetrySleep ==
    /\ monitorPc = "retry_sleep"
    /\ cookieAge' = Aged(cookieAge, RetryMinutes)
    /\ monitorPc' = "loop"
    /\ UNCHANGED <<interval_minutes, max_age_hours, iteration, refreshes>>
    /\ UNCHANGED <<downloadVars, uploadVars, splitVars>>

\* KeyboardInterrupt inside the try of the loop (112-115, 121)
MonitorInterrupt ==
    /\ monitorPc \in {"refresh", "sleep"}
    /\ monitorPc' = "stopped"
    /\ UNCHANGED <<interval_minutes, max_age_hours, iteration, cookieAge,
                   refreshes>>
    /\ UNCHANGED <<downloadVars, uploadVars, splitVars>>

NextMonitor ==
    \/ MonitorIterate
    \/ MonitorRefresh
    \/ MonitorSleep
    \/ MonitorRetrySleep
    \/ MonitorInterrupt

\* A run of the cookie monitor in continuous mode.
SpecMonitor == InitMonitor /\ [][NextMonitor]_vars

\* ---------------------------------------------------------- split.py (1-235)

\* channel_data as analyze_channels builds it (79-101): one entry per
\* channel url, in the order of the dict, with the video count found for it
\* (0 when the count failed, 36-77).  A channel is named by its rank in
\* channel_urls.txt.
ChannelData(n) ==
    { [i \in 1..n |-> [url |-> i, video_count |-> vc[i]]] :
        vc \in [1..n -> 0..MaxVideos] }

\* The entry goes after the entries that are not smaller than it.
RECURSIVE InsertDescending(_, _)
InsertDescending(seq, x) ==
    IF seq = <<>> THEN <<x>>
    ELSE IF Head(seq).video_count < x.video_count
         THEN <<x>> \o seq
         ELSE <<Head(seq)>> \o InsertDescending(Tail(seq), x)

\* sorted(channel_data.items(), key=video_count, reverse=True) (108): the
\* sort is stable, channels of equal count keep the order of the dict.
RECURSIVE SortedDescending(_)
SortedDescending(seq) ==
    IF seq = <<>> THEN <<>>
    ELSE InsertDescending(SortedDescending(SubSeq(seq, 1, Len(seq) - 1)),
                          seq[Len(seq)])

\* min(group_video_counts) (117)
MinCount(cs) == CHOOSE m \in {cs[i] : i \in 1..Len(cs)} :
                    \A i \in 1..Len(cs) : m <= cs[i]

\* The mutant takes the last of the groups with the minimum.
LastMinGroupIdx(cs) ==
    CHOOSE i \in 1..Len(cs) :
        /\ cs[i] = MinCount(cs)
        /\ \A j \in (i + 1)..Len(cs) : cs[j] # MinCount(cs)

\* group_video_counts.index(min(group_video_counts)) (117): the first of
\* the groups with the minimum.
min_group_idx(cs) ==
    CHOOSE i \in 1..Len(cs) :
        /\ cs[i] = MinCount(cs)
        /\ \A j \in 1..(i - 1) : cs[j] # MinCount(cs)

\* The mutant puts the channel in place of the group.
ReplaceGroup(gs, idx, ch) == [gs EXCEPT ![idx] = <<ch>>]

\* groups[min_group_idx].append({...}) (120-124)
AppendToGroup(gs, idx, ch) == [gs EXCEPT ![idx] = Append(@, ch)]

\* The state when split_channels_balanced is called (103, 225).
InitSplit ==
    /\ DownloaderOff
    /\ UploaderOff
    /\ MonitorOff
    /\ splitPc = "start"
    /\ num_groups \in 0..MaxGroups
    /\ \E n \in 0..MaxChannels : channel_data \in ChannelData(n)
    /\ sorted_channels = <<>>
    /\ groups = <<>>
    /\ group_video_counts = <<>>

\* The channels are sorted and the empty groups are made (107-112).
SplitSort ==
    /\ splitPc = "start"
    /\ sorted_channels' = SortedDescending(channel_data)
    /\ groups' = [i \in 1..num_groups |-> <<>>]
    /\ group_video_counts' = [i \in 1..num_groups |-> 0]
    /\ splitPc' = "loop"
    /\ UNCHANGED <<channel_data, num_groups>>
    /\ UNCHANGED <<downloadVars, uploadVars, monitorVars>>

\* One turn of the for loop (115-127): the next channel goes to the first
\* group with the smallest count, which grows by the count of the channel.
\* Without a group min() raises ValueError.
SplitAssign ==
    /\ splitPc = "loop"
    /\ sorted_channels # <<>>
    /\ IF num_groups = 0
       THEN /\ splitPc' = "raised"
            /\ UNCHANGED <<sorted_channels, groups, group_video_counts>>
       ELSE LET ch  == Head(sorted_channels)
                idx == min_group_idx(group_video_counts)
            IN  /\ groups' = AppendToGroup(groups, idx, ch)
                /\ group_video_counts' =
                      [group_video_counts EXCEPT ![idx] = @ + ch.video_count]
                /\ sorted_channels' = Tail(sorted_channels)
                /\ UNCHANGED splitPc
    /\ UNCHANGED <<channel_data, num_groups>>
    /\ UNCHANGED <<downloadVars, uploadVars, monitorVars>>

\* return groups, group_video_counts (129)
SplitReturn ==
    /\ splitPc = "loop"
    /\ sorted_channels = <<>>
    /\ splitPc' = "returned"
    /\ UNCHANGED <<channel_data, num_groups, sorted_channels, groups,
                   group_video_counts>>
    /\ UNCHANGED <<downloadVars, uploadVars, monitorVars>>

NextSplit ==
    \/ SplitSort
    \/ SplitAssign
    \/ SplitReturn

\* A call of split_channels_balanced.
SpecSplit == InitSplit /\ [][NextSplit]_vars

\* ------------------------------------------------------- the specification

\* The steps of a pool thread but the cookie refresh.
PipelineStep(t) ==
    \/ StartTask(t)
    \/ ExtractInfo(t)
    \/ PreCheck(t)
    \/ Download(t)
    \/ VerifyDownload(t)
    \/ Upload(t)
    \/ Put(t)
    \/ Remove(t)
    \/ CsvExists(t)
    \/ CsvOpen(t)
    \/ CsvWrite(t)
    \/ Finish(t)

WorkerStep(t) ==
    \/ PipelineStep(t)
    \/ RefreshCookies(t)

\* The steps of the main thread, and of the other users of the bucket.
MainStep ==
    \/ InitializeGcs
    \/ MainLoop
    \/ ResolveChannel
    \/ ResolveRefresh
    \/ Collect
    \/ ChannelDone
    \/ ExternalPut

Next ==
    \/ MainStep
    \/ \E t \in Workers : WorkerStep(t)

Spec == Init /\ [][Next]_vars

\* The run with the writing of cookies.txt in its two steps.
NextCookieFile ==
    \/ MainStep
    \/ \E t \in Workers : PipelineStep(t) \/ RefreshOpen(t) \/ RefreshWrite(t)

SpecCookieFile == Init /\ [][NextCookieFile]_vars

\* The run with an operator who may press Ctrl-C during a channel run.
NextInterrupt ==
    \/ Next
    \/ Interrupt
    \/ Shutdown

SpecInterrupt == Init /\ [][NextInterrupt]_vars

\* The run with a ledger file that may fail to open.
NextLedgerFault ==
    \/ Next
    \/ \E t \in Workers : CsvRaise(t)

SpecLedgerFault == InitLedgerFault /\ [][NextLedgerFault]_vars

FairSpecLedgerFault == SpecLedgerFault /\ WF_vars(NextLedgerFault)

\* The pool threads and the main thread keep running: a step that can be
\* taken is taken.  Every call of the run returns, so this is all the
\* scheduling the run needs.
FairSpec == Spec /\ WF_vars(Next)

\* ---------------------------------------------------------------- claims

\* The row is a line of the ledger.
InLedger(row) == \E i \in 1..Len(ledger) : ledger[i] = row

\* Another video of the run resolves to the same file.
Shared(url) ==
    \E u \in RunVideos(chans) \ {url} : ExpectedFilename(u) = ExpectedFilename(url)

\* The return statements reached after the downloaded file was found.
FetchedReturns == {"uploaded", "remove_failed", "upload_failed", "no_bucket"}

\* How many of the first n caught exceptions are cookie errors.
AuthCount(fs, n) ==
    Cardinality({i \in 1..Len(fs) : i <= n /\ IsCookieError(fs[i])})

\* C1 (as claimed): whenever a call of download_and_upload_video_audio
\* returns, on any branch, it has appended exactly one row to the ledger.
C1_OneRowPerInvocation ==
    \A t \in Workers : w[t].pc = "done" => w[t].nRows = 1

\* C2: once the existence check before the download reports the key
\* present, the call issues no download and no upload, writes the one row
\* ALREADY_EXISTS with duration 0 and returns (True, True); when the check
\* of the first attempt reports it, the call has issued no download at all.
C2_State(t) ==
    w[t].pre =>
        /\ w[t].nUpload = 0 /\ w[t].nPut = 0 /\ w[t].nRemove = 0
        /\ w[t].attempt = 0 => w[t].nFetch = 0
        /\ w[t].row = Row(w[t].url, ExpectedFilename(w[t].url),
                          "ALREADY_EXISTS", "0", MsgOnGcs)
        /\ w[t].pc = "done" =>
              /\ w[t].result = <<TRUE, TRUE>>
              /\ w[t].nRows = 1
              /\ InLedger(w[t].row)

C2_Step(t) ==
    (w[t].pre /\ w'[t].pc # "idle") =>
        /\ w'[t].nFetch = w[t].nFetch
        /\ w'[t].nUpload = w[t].nUpload
        /\ w'[t].nPut = w[t].nPut
        /\ w'[t].pc \in {"csv_exists", "csv_open", "csv_write", "done"}

C3_DeleteIffConfirmed ==
    \A t \in Workers :
        /\ w[t].nRemove <= 1
        /\ w[t].nRemove = 1 => w[t].up
        /\ (w[t].pc = "done" /\ w[t].ret \in FetchedReturns) =>
              /\ w[t].nRemove = 1 <=> w[t].up
              /\ ~Shared(w[t].url) =>
                    (ExpectedFilename(w[t].url) \in disk <=> ~w[t].up)

C3_Witness ==
    /\ \E t \in Workers :
         w[t].pc = "done" /\ w[t].ret = "upload_failed" /\ ~Shared(w[t].url)
    /\ \E t \in Workers :
         w[t].pc = "done" /\ w[t].ret = "uploaded" /\ ~Shared(w[t].url)

\* C4 (as claimed): of the calls that resolve to one destination key, at
\* most one uploads the key in full.  (The calls of one process write the
\* same local path, so the disk never holds two copies for a key.)
C4_AtMostOneUploadPerKey ==
    \A b \in Blobs : puts[b] <= 1

\* C5 (as claimed): the ledger holds the header exactly once, as its first
\* row, followed by one row per finished call of write_csv_entry.
C5_HeaderOnceAndFirst ==
    ledger # <<>> =>
        /\ ledger[1] = HeaderRow
        /\ \A i \in 2..Len(ledger) : ledger[i] # HeaderRow

\* C6: the refresh calls of a call are exactly its cookie-classified
\* failures that had attempts left: when an attempt starts, one
\* export_firefox_cookies call has been made for each such failure before
\* it and none for any other failure; a call whose only failure was a
\* cookie error on attempt 1 and whose attempt 2 downloaded the file has
\* made one refresh call and wrote DOWNLOAD_SUCCESS.
C6_OneRefreshPerAuthFailure ==
    \A t \in Workers :
        /\ w[t].nRefresh + (IF w[t].pc = "refresh" THEN 1 ELSE 0)
              = AuthCount(w[t].fails, max_retries - 1)
        /\ w[t].pc = "extract" => Len(w[t].fails) = w[t].attempt
        /\ (/\ w[t].pc = "done"
            /\ w[t].ret \in FetchedReturns
            /\ Len(w[t].fails) = 1
            /\ IsCookieError(w[t].fails[1])) =>
              /\ w[t].nRefresh = 1
              /\ w[t].attempt = 1
              /\ w[t].row.status = "DOWNLOAD_SUCCESS"
              /\ InLedger(w[t].row)

C6_Witness ==
    \E t \in Workers :
        /\ w[t].pc = "done"
        /\ w[t].ret \in FetchedReturns
        /\ w[t].fails = <<MsgLogin>>
        /\ w[t].nRefresh = 1

\* C7 (as claimed): when every attempt failed, the ledger status is
\* AUTH_FAILED if the last failure was a cookie error and DOWNLOAD_FAILED
\* otherwise, and the row carries the text of the last failure.
C7_StatusByClass ==
    \A t \in Workers :
        (w[t].pc = "done" /\ w[t].ret = "retries_exhausted") =>
            /\ w[t].row.status =
                  (IF IsCookieError(w[t].fails[Len(w[t].fails)])
                   THEN "AUTH_FAILED" ELSE "DOWNLOAD_FAILED")
            /\ w[t].row.error = w[t].fails[Len(w[t].fails)]
            /\ InLedger(w[t].row)

\* C7 (amended): when every attempt up to the ceiling failed, the ledger
\* status is DOWNLOAD_FAILED whatever the class of the last failure, and
\* the one row written carries the text of the last failure.
C7_AlwaysDownloadFailed ==
    \A t \in Workers :
        (w[t].pc = "done" /\ w[t].ret = "retries_exhausted") =>
            /\ Len(w[t].fails) = max_retries
            /\ w[t].row.status = "DOWNLOAD_FAILED"
            /\ w[t].row.error = w[t].fails[Len(w[t].fails)]
            /\ w[t].nRows = 1
            /\ InLedger(w[t].row)

C7_Witness ==
    \E t \in Workers :
        /\ w[t].pc = "done"
        /\ w[t].ret = "retries_exhausted"
        /\ IsCookieError(w[t].fails[Len(w[t].fails)])

\* C8 (as claimed): when the check before the upload reports the key
\* present, no upload is issued, the local file is removed and the row of
\* the item in the ledger is ALREADY_EXISTS.
C8_RecheckRecordsAlreadyExists ==
    \A t \in Workers :
        w[t].re =>
            /\ w[t].nPut = 0
            /\ w[t].pc = "done" =>
                  /\ w[t].nRemove = 1
                  /\ w[t].row.status = "ALREADY_EXISTS"

\* C8 (amended): when the check before the upload reports the key present,
\* no upload is issued and os.remove is called on the local file; the one
\* row of the call stays the DOWNLOAD_SUCCESS row written before the
\* upload step, and the call returns download success; for a file no other
\* video of the run resolves to, the file is gone and the call returns
\* (True, True).
C8_RecheckSkipsUpload ==
    \A t \in Workers :
        w[t].re =>
            /\ w[t].nPut = 0
            /\ w[t].pc \in {"remove", "done"}
            /\ w[t].pc = "done" =>
                  /\ w[t].nRemove = 1
                  /\ w[t].nRows = 1
                  /\ w[t].row.status = "DOWNLOAD_SUCCESS"
                  /\ InLedger(w[t].row)
                  /\ w[t].result[1]
                  /\ ~Shared(w[t].url) =>
                        /\ ExpectedFilename(w[t].url) \notin disk
                        /\ w[t].result = <<TRUE, TRUE>>

C8_Witness ==
    \E t \in Workers : w[t].pc = "done" /\ w[t].re /\ w[t].nFetch = 1

\* C9: when the download succeeded and the upload fails, the call returns
\* at once with (True, False): no further download, attempt or ledger
\* write follows the upload, the call issues no os.remove, its one row is
\* DOWNLOAD_SUCCESS, the result counts as downloaded and not uploaded, and
\* a file no other video of the run resolves to is still on disk.
C9_UploadFailureKeepsFile ==
    \A t \in Workers :
        /\ w[t].nPut > 0 => w[t].pc \in {"remove", "done"}
        /\ (w[t].pc = "done" /\ w[t].ret = "upload_failed") =>
              /\ w[t].result = <<TRUE, FALSE>>
              /\ w[t].nPut = 1
              /\ w[t].nRemove = 0
              /\ w[t].nRows = 1
              /\ w[t].row.status = "DOWNLOAD_SUCCESS"
              /\ InLedger(w[t].row)
              /\ Count(ZeroCounts, w[t].result)
                    = [downloaded |-> 1, uploaded |-> 0, failed |-> 0]
              /\ ~Shared(w[t].url) => ExpectedFilename(w[t].url) \in disk

C9_Witness ==
    \E t \in Workers :
        /\ w[t].pc = "done"
        /\ w[t].ret = "upload_failed"
        /\ ExpectedFilename(w[t].url) \in disk

\* C10 (as claimed): when ydl.download returns and the expected file is
\* not on disk, the call returns download failure, has attempted no upload
\* and no removal, and has recorded the failure with status
\* DOWNLOAD_FAILED.
C10_MissingFileRecorded ==
    \A t \in Workers :
        (w[t].pc = "done" /\ w[t].ret = "file_missing") =>
            /\ w[t].result = <<FALSE, FALSE>>
            /\ w[t].nUpload = 0
            /\ w[t].nRemove = 0
            /\ \E i \in 1..Len(ledger) :
                  /\ ledger[i].url = w[t].url
                  /\ ledger[i].status = "DOWNLOAD_FAILED"

\* C11: when initialize_gcs_client returned no bucket, the run still goes
\* through every channel; no call issues an upload, a put or an os.remove
\* and no blob is written; a call that found its downloaded file returns
\* (True, False) from the no-bucket branch with the one row
\* DOWNLOAD_SUCCESS; no result counts as uploaded; and the file of every
\* DOWNLOAD_SUCCESS row is on disk, at the end of the run as well.
C11_NoBucketKeepsFiles ==
    (mainPc # "init" /\ ~bucket) =>
        /\ storage = {}
        /\ \A b \in Blobs : puts[b] = 0
        /\ \A t \in Workers :
              /\ w[t].nUpload = 0 /\ w[t].nPut = 0 /\ w[t].nRemove = 0
              /\ (w[t].pc = "done" /\ w[t].row.status = "DOWNLOAD_SUCCESS") =>
                    /\ w[t].ret = "no_bucket"
                    /\ w[t].result = <<TRUE, FALSE>>
                    /\ w[t].nRows = 1
                    /\ ExpectedFilename(w[t].url) \in disk
        /\ \A u \in Videos :
              futures[u].st \in {"done", "collected"} => ~futures[u].result[2]
        /\ counts.uploaded = 0
        /\ \A i \in 1..Len(ledger) :
              ledger[i].status = "DOWNLOAD_SUCCESS" => ledger[i].filename \in disk
        /\ mainPc = "finished" => ci = Len(chans) + 1

C11_Witness ==
    /\ mainPc = "finished"
    /\ ~bucket
    /\ counts.downloaded > 0
    /\ \E i \in 1..Len(ledger) :
          ledger[i].status = "DOWNLOAD_SUCCESS" /\ ledger[i].filename \in disk

\* The places of the queue that hold the url, and the pool threads that
\* execute its call.
QueuedAt(u) == {i \in 1..Len(queue) : queue[i] = u}

ExecutedBy(u) == {t \in Workers : w[t].pc # "idle" /\ w[t].url = u}

\* The urls get_video_urls returned for the channel of the for loop.
ChannelVideos ==
    IF ci \in 1..Len(chans)
    THEN {Entries(chans[ci])[i] : i \in 1..Len(Entries(chans[ci]))}
    ELSE {}

\* The futures the as_completed loop has handled.
Collected == {u \in Videos : futures[u].st = "collected"}

\* How far the future of a submitted call has come.
FutureRank(st) ==
    CASE st = "none" -> 0
      [] st = "pending" -> 1
      [] st = "running" -> 2
      [] st = "done" -> 3
      [] st = "collected" -> 4

\* C12: in a channel run every url that get_video_urls returned has one
\* future and no other url has one; a pending call is on the queue once
\* and on no thread, a running call is on one thread and not on the queue,
\* a finished call is on neither; a future only moves forward, one stage
\* at a time, so a call is started once and never again; the channel run
\* returns only when every future is collected; and under fair scheduling
\* the as_completed loop comes to the point where every submitted call
\* was started, has finished and is collected.
C12_State ==
    /\ mainPc = "collect" =>
          \A u \in Videos : futures[u].st # "none" <=> u \in ChannelVideos
    /\ \A u \in Videos :
          /\ futures[u].st = "pending" =>
                Cardinality(QueuedAt(u)) = 1 /\ ExecutedBy(u) = {}
          /\ futures[u].st = "running" =>
                QueuedAt(u) = {} /\ Cardinality(ExecutedBy(u)) = 1
          /\ futures[u].st \notin {"pending", "running"} =>
                QueuedAt(u) = {} /\ ExecutedBy(u) = {}

C12_Step ==
    /\ (mainPc = "collect" /\ mainPc' = "collect") =>
          \A u \in Videos :
              /\ FutureRank(futures'[u].st) >= FutureRank(futures[u].st)
              /\ FutureRank(futures'[u].st) <= FutureRank(futures[u].st) + 1
    /\ \A t \in Workers :
          (w[t].pc = "idle" /\ w'[t].pc # "idle") =>
              /\ futures[w'[t].url].st = "pending"
              /\ futures'[w'[t].url].st = "running"
              /\ w'[t].url = Head(queue)
    /\ (mainPc = "collect" /\ mainPc' # "collect") =>
          \A u \in ChannelVideos : futures[u].st = "collected"

C12_EveryItemOnce ==
    /\ []C12_State
    /\ [][C12_Step]_vars
    /\ (mainPc = "collect") ~>
          (mainPc = "collect" /\ Collected = ChannelVideos)

C12_Witness ==
    /\ mainPc = "collect"
    /\ Cardinality(ChannelVideos) = 2
    /\ \A u \in ChannelVideos : futures[u].st = "collected"
    /\ \E u \in ChannelVideos : ~futures[u].result[1]
    /\ \E u \in ChannelVideos : futures[u].result[1]

\* The pool threads inside a call of download_and_upload_video_audio.
InProgress == {t \in Workers : w[t].pc # "idle"}

\* C13: at every moment the number of calls of
\* download_and_upload_video_audio in progress is at most max_workers,
\* also while submitted calls are waiting.
C13_AtMostMaxWorkers ==
    /\ Cardinality(InProgress) <= maxWorkers
    /\ Cardinality({u \in Videos : futures[u].st = "running"}) <= maxWorkers

C13_Witness ==
    /\ queue # <<>>
    /\ Cardinality(InProgress) = maxWorkers
    /\ maxWorkers < Cardinality(ChannelVideos)

\* C14: during the as_completed loop, under any order of completions, the
\* three counters account for exactly the collected futures: each
\* collected item is in exactly one of successful_downloads and
\* failed_downloads, successful_uploads counts the downloaded items whose
\* upload succeeded, so uploaded <= downloaded, and when the loop ends
\* downloaded + failed is the number of urls of the channel.
C14_CountersAccount ==
    mainPc = "collect" =>
        /\ counts.downloaded =
              Cardinality({u \in Collected : futures[u].result[1]})
        /\ counts.failed =
              Cardinality({u \in Collected : ~futures[u].result[1]})
        /\ counts.uploaded =
              Cardinality({u \in Collected :
                             futures[u].result[1] /\ futures[u].result[2]})
        /\ counts.downloaded + counts.failed = Cardinality(Collected)
        /\ counts.uploaded <= counts.downloaded
        /\ Collected = ChannelVideos =>
              counts.downloaded + counts.failed = Len(Entries(chans[ci]))

C14_Witness ==
    /\ mainPc = "collect"
    /\ Collected = ChannelVideos
    /\ maxWorkers > 1
    /\ counts = [downloaded |-> 1, uploaded |-> 1, failed |-> 1]

\* C15: when a call of download_and_upload_video_audio raises, nothing but
\* that call changes: the other calls, the queue and the main thread are
\* where they were; the main thread collects the exception as one more
\* failed download and stays in the as_completed loop; the counters
\* account for every collected future, raised or returned; the channel run
\* returns only when every url of the channel is collected and counted;
\* and under fair scheduling it does return and the run finishes.
C15_State ==
    mainPc = "collect" =>
        /\ counts.failed =
              Cardinality({u \in Collected :
                             futures[u].exc \/ ~futures[u].result[1]})
        /\ counts.downloaded =
              Cardinality({u \in Collected :
                             ~futures[u].exc /\ futures[u].result[1]})
        /\ counts.downloaded + counts.failed = Cardinality(Collected)

C15_Step ==
    /\ \A t \in Workers :
          (w[t].pc # w'[t].pc /\ "raised" \in {w[t].pc, w'[t].pc}) =>
              /\ \A o \in Workers \ {t} : w'[o] = w[o]
              /\ UNCHANGED <<mainPc, ci, queue, counts>>
              /\ \A u \in Videos \ {w[t].url} : futures'[u] = futures[u]
              /\ w[t].pc = "raised" =>
                    futures'[w[t].url] =
                        [st |-> "done", result |-> <<FALSE, FALSE>>, exc |-> TRUE]
    /\ \A u \in Videos :
          (futures[u].st = "done" /\ futures[u].exc /\ futures'[u].st # "done") =>
              /\ futures'[u].st = "collected"
              /\ counts' = [counts EXCEPT !.failed = @ + 1]
              /\ UNCHANGED <<mainPc, ci, queue, w>>
    /\ (mainPc = "collect" /\ mainPc' # "collect") =>
          /\ Collected = ChannelVideos
          /\ counts.downloaded + counts.failed = Len(Entries(chans[ci]))
          /\ mainPc' = "loop" /\ ci' = ci + 1

C15_RaisedItemIsOneFailure ==
    /\ []C15_State
    /\ [][C15_Step]_vars
    /\ (\E u \in Videos : futures[u].exc) ~> (mainPc = "finished")

C15_Witness ==
    /\ mainPc = "collect"
    /\ maxWorkers > 1
    /\ Collected = ChannelVideos
    /\ \E u \in Collected : futures[u].exc
    /\ \E u \in Collected : ~futures[u].exc /\ futures[u].result[1]
    /\ counts.downloaded = 1 /\ counts.failed = 1

\* C16: channels are handled one after the other, in the order of
\* CHANNEL_URLS: calls are queued, running or waiting to be collected only
\* while the main thread is in the as_completed loop of the channel of the
\* for loop, and every such call is for a url of that channel; whenever
\* the main thread is between channels or resolving one, every pool
\* thread is idle and no future is open; the for loop only moves to the
\* next channel, never back.
C16_State ==
    /\ \A t \in InProgress : mainPc = "collect" /\ w[t].url \in ChannelVideos
    /\ \A u \in Videos :
          futures[u].st \in {"pending", "running", "done"} =>
              mainPc = "collect" /\ u \in ChannelVideos
    /\ queue # <<>> => mainPc = "collect"
    /\ mainPc # "collect" =>
          /\ InProgress = {}
          /\ queue = <<>>
          /\ \A u \in Videos : futures[u].st \in {"none", "collected"}

C16_Step ==
    /\ ci' \in {ci, ci + 1}
    /\ ci' # ci => InProgress = {} /\ queue = <<>>
    /\ mainPc' \in {"resolve", "resolve_refresh"} =>
          \A t \in Workers : w[t].pc = "idle" /\ w'[t].pc = "idle"

C16_ChannelsSequential ==
    /\ []C16_State
    /\ [][C16_Step]_vars

C16_Witness ==
    /\ ci = 3
    /\ mainPc = "collect"
    /\ \E t \in InProgress : w[t].pc = "extract" /\ w[t].attempt = 0
    /\ \E i \in 1..Len(ledger) : ledger[i].url \in ChannelVideos

\* C17: when extract_info of a channel raised on every one of the
\* max_retries attempts, get_video_urls returns [] and the channel run
\* returns at once: the step of the last failure moves the for loop to
\* the next channel and changes neither the counters, the futures, the
\* queue, the pool threads, the ledger nor the disk; nothing changes them
\* while a channel is being resolved; and no call is started for the
\* channel.
C17_State ==
    /\ Len(resolve.fails) <= max_retries
    /\ Len(resolve.fails) = max_retries =>
          /\ mainPc \in {"loop", "finished"}
          /\ InProgress = {}
          /\ queue = <<>>
          /\ \A u \in Videos : futures[u].st \in {"none", "collected"}

C17_Step ==
    /\ (mainPc \in {"resolve", "resolve_refresh"} /\ mainPc' # "collect") =>
          UNCHANGED <<counts, futures, queue, w, ledger, disk, dirExists,
                      csvExists, puts>>
    /\ (Len(resolve.fails) < max_retries /\ Len(resolve'.fails) = max_retries) =>
          /\ mainPc = "resolve"
          /\ mainPc' = "loop"
          /\ ci' = ci + 1
    /\ (Len(resolve.fails) = max_retries /\ mainPc = "loop"
            /\ ci <= Len(chans) /\ Contains(YoutubeDomain, chans[ci])) =>
          /\ mainPc' = "resolve" \/ UNCHANGED <<mainPc, ci, resolve>>
          /\ mainPc' = "resolve" => resolve' = IdleResolve /\ ci' = ci

C17_FailedResolutionSkipsChannel ==
    /\ []C17_State
    /\ [][C17_Step]_vars

C17_Witness ==
    /\ mainPc = "resolve"
    /\ ci = 3
    /\ faults = 0
    /\ resolve = IdleResolve
    /\ counts = ZeroCounts
    /\ ledger = <<>>
    /\ ~dirExists

\* The call belongs to a second pass over its channel and the bucket has
\* received the blob of its url from an earlier call.
SecondPass(t) ==
    /\ w[t].pc # "idle"
    /\ \E k \in 1..(ci - 1) : chans[k] = chans[ci]
    /\ puts[BlobName(ExpectedFilename(w[t].url))] > w[t].nPut

C19_OnlyTerminalOutcomeLogged ==
    \A t \in Workers :
        /\ w[t].row.status = "DOWNLOAD_FAILED" => Len(w[t].fails) = max_retries
        /\ w[t].pc \in {"extract", "precheck", "download", "verify", "refresh"} =>
              w[t].nRows = 0
        /\ (/\ w[t].pc = "done"
            /\ w[t].ret \in FetchedReturns
            /\ Len(w[t].fails) = 2
            /\ ~IsCookieError(w[t].fails[1])
            /\ ~IsCookieError(w[t].fails[2])) =>
              /\ w[t].attempt = 2
              /\ w[t].nRefresh = 0
              /\ w[t].nRows = 1
              /\ w[t].row = Row(w[t].url, ExpectedFilename(w[t].url),
                                "DOWNLOAD_SUCCESS", "elapsed", NoError)
              /\ InLedger(w[t].row)
              /\ w[t].result[1]

C19_Witness ==
    \E t \in Workers :
        /\ w[t].pc = "done"
        /\ w[t].ret \in FetchedReturns
        /\ w[t].fails = <<Msg404, Msg404>>
        /\ w[t].nFetch = 3
        /\ w[t].nRows = 1

\* ydl.download of the call has returned.
Fetched(rec) ==
    \/ rec.pc \in {"verify", "upload", "put", "remove"}
    \/ rec.pc \in {"csv_exists", "csv_open", "csv_write"}
          /\ rec.row.status = "DOWNLOAD_SUCCESS"
    \/ rec.pc = "done" /\ rec.ret \in FetchedReturns \cup {"file_missing"}

C20_State ==
    \A t \in Workers :
        /\ w[t].attempt <= max_retries - 1
        /\ w[t].nFetch <= max_retries
        /\ w[t].nFetch <= Len(w[t].fails) + 1
        /\ w[t].pc \in {"extract", "precheck", "download", "refresh"} =>
              w[t].nFetch <= Len(w[t].fails)
        /\ Fetched(w[t]) => w[t].nFetch >= 1

C20_Step ==
    \A t \in Workers :
        /\ w'[t].nFetch > w[t].nFetch =>
              w[t].pc = "download" /\ w'[t].nFetch = w[t].nFetch + 1
        /\ (Fetched(w[t]) /\ w'[t].pc # "idle") =>
              /\ Fetched(w'[t])
              /\ w'[t].nFetch = w[t].nFetch
              /\ w'[t].attempt = w[t].attempt

C21_State ==
    \A t \in Workers :
        /\ w[t].nUpload <= 1
        /\ w[t].nPut <= w[t].nUpload
        /\ w[t].nRemove <= w[t].nUpload
        /\ w[t].nUpload = 1 => w[t].pc \in {"put", "remove", "done"}

C21_Step ==
    \A t \in Workers :
        (w[t].nUpload = 1 /\ w'[t].pc # "idle") =>
            /\ w'[t].nUpload = 1
            /\ w'[t].attempt = w[t].attempt
            /\ w'[t].nRows = w[t].nRows

C21_OneUploadOneRemoval ==
    /\ []C21_State
    /\ [][C21_Step]_vars

C21_Witness ==
    \E t \in Workers :
        /\ w[t].pc = "done"
        /\ w[t].attempt > 0
        /\ w[t].nUpload = 1 /\ w[t].nPut = 1 /\ w[t].nRemove = 1

\* How far a call has come inside one attempt.
StageRank(pc) ==
    CASE pc = "idle" -> 0
      [] pc = "extract" -> 1
      [] pc = "precheck" -> 2
      [] pc = "download" -> 3
      [] pc = "verify" -> 4
      [] pc = "refresh" -> 5
      [] pc = "csv_exists" -> 6
      [] pc = "csv_open" -> 7
      [] pc = "csv_write" -> 8
      [] pc = "upload" -> 9
      [] pc = "put" -> 10
      [] pc = "remove" -> 11
      [] OTHER -> 12

\* The progress of a call: its attempt, then its place in the attempt.
Progress(rec) == rec.attempt * 13 + StageRank(rec.pc)

\* C22: a call makes at most max_retries attempts: the attempt number
\* never passes max_retries - 1, the failures caught never pass
\* max_retries and the cookie refreshes never pass max_retries - 1, also
\* when every refresh succeeds; every step of a call moves it forward, to
\* a later place of the attempt or to the next attempt, so no path
\* repeats; after the failure of the last attempt the call only writes its
\* row and returns; and under fair scheduling every call that was started
\* returns.
C22_State ==
    \A t \in Workers :
        /\ w[t].attempt <= max_retries - 1
        /\ Len(w[t].fails) <= max_retries
        /\ w[t].nRefresh <= max_retries - 1
        /\ Len(w[t].fails) = max_retries =>
              /\ w[t].pc \in {"csv_exists", "csv_open", "csv_write", "done"}
              /\ w[t].pc = "done" => w[t].result = <<FALSE, FALSE>>

C22_Step ==
    \A t \in Workers :
        (w'[t] # w[t] /\ w[t].pc \notin {"idle", "done"}) =>
            /\ Progress(w'[t]) > Progress(w[t])
            /\ w'[t].attempt \in {w[t].attempt, w[t].attempt + 1}

C22_ItemProcessingTerminates ==
    /\ []C22_State
    /\ [][C22_Step]_vars
    /\ (InProgress # {}) ~> (InProgress = {})

C22_Witness ==
    \E t \in Workers :
        /\ w[t].pc = "done"
        /\ w[t].attempt = max_retries - 1
        /\ w[t].nRefresh = max_retries - 1
        /\ Len(w[t].fails) = max_retries

\* C23: get_video_urls makes at most max_retries attempts; its cookie
\* refreshes are exactly its cookie-classified failures that had attempts
\* left, one refresh each, and none follows another failure; an attempt
\* starts with one failure caught per earlier attempt; the call ends
\* either with the urls of the channel, which are then submitted, or with
\* an empty list, after the failure of the last attempt or without
\* entries, and then the channel run returns with nothing submitted and
\* the for loop goes on.
C23_State ==
    /\ resolve.attempt <= max_retries - 1
    /\ Len(resolve.fails) <= max_retries
    /\ resolve.nRefresh + (IF mainPc = "resolve_refresh" THEN 1 ELSE 0)
          = AuthCount(resolve.fails, max_retries - 1)
    /\ mainPc = "resolve" => Len(resolve.fails) = resolve.attempt
    /\ mainPc = "resolve_refresh" =>
          /\ IsCookieError(resolve.fails[Len(resolve.fails)])
          /\ Len(resolve.fails) = resolve.attempt + 1

C23_Step ==
    /\ (mainPc = "resolve" /\ mainPc' = "loop") =>
          /\ ci' = ci + 1
          /\ UNCHANGED <<queue, futures, w, counts, dirExists>>
          /\ resolve' = resolve \/ Len(resolve'.fails) = max_retries
    /\ (mainPc = "resolve" /\ mainPc' = "collect") =>
          /\ resolve' = resolve
          /\ queue' = Entries(chans[ci])
          /\ queue' # <<>>
    /\ mainPc = "resolve" =>
          mainPc' \in {"resolve", "resolve_refresh", "loop", "collect"}
    /\ (mainPc = "resolve" /\ mainPc' = "resolve" /\ resolve' # resolve) =>
          /\ resolve'.attempt = resolve.attempt + 1
          /\ ~IsCookieError(resolve'.fails[Len(resolve'.fails)])
    /\ mainPc = "resolve_refresh" =>
          \/ UNCHANGED <<mainPc, resolve>>
          \/ /\ mainPc' = "resolve"
             /\ resolve'.attempt = resolve.attempt + 1
             /\ resolve'.nRefresh = resolve.nRefresh + 1

C23_ResolutionRetryPolicy ==
    /\ []C23_State
    /\ [][C23_Step]_vars

C23_Witness ==
    /\ mainPc = "loop"
    /\ resolve.fails = <<MsgLogin, Msg404, MsgLogin>>
    /\ resolve.nRefresh = 1
    /\ queue = <<>>

\* C24 (as claimed): no failure inside download_and_upload_video_audio
\* leaves the call as an exception, a failure of the ledger write
\* included: every call ends with a returned pair.
C24_NoExceptionEscapes ==
    /\ \A t \in Workers : w[t].pc # "raised"
    /\ \A u \in Videos : ~futures[u].exc

\* The pool threads that have cookies.txt open for writing.
CookieWriters == {t \in Workers : w[t].pc = "refresh_write"}

\* C25 (as claimed): no file is written by one call while another call
\* reads or writes it; for cookies.txt: no call builds its YoutubeDL,
\* which reads the 'cookiefile', while another call is writing the file,
\* and no two calls write it at once.
C25_NoSharedCookieFile ==
    /\ [](Cardinality(CookieWriters) <= 1)
    /\ [][\A t \in Workers :
            (w[t].pc = "extract" /\ w'[t].pc # "extract") =>
                CookieWriters \ {t} = {}]_vars

\* The statuses a row of the ledger may carry.
LedgerStatuses ==
    {"DOWNLOAD_SUCCESS", "ALREADY_EXISTS", "DOWNLOAD_FAILED", "AUTH_FAILED"}

\* The ledger only grows at its end: what it held is kept, in place.
AppendOnly ==
    /\ Len(ledger') >= Len(ledger)
    /\ SubSeq(ledger', 1, Len(ledger)) = ledger

\* C26 (as claimed): the ledger is append-only, and every row of it, that
\* is every line after the header line, has one of the four statuses.
C26_AppendOnlyWithStatuses ==
    /\ [][AppendOnly]_vars
    /\ [](\A i \in 2..Len(ledger) : ledger[i].status \in LedgerStatuses)

\* The part of C26 that holds: no step removes, reorders or changes a line
\* of the ledger, and every line is the header line or has one of the
\* statuses DOWNLOAD_SUCCESS, ALREADY_EXISTS, DOWNLOAD_FAILED.
LedgerOnlyGrows ==
    /\ [][AppendOnly]_vars
    /\ [](\A i \in 1..Len(ledger) :
             \/ ledger[i] = HeaderRow
             \/ ledger[i].status \in LedgerStatuses \ {"AUTH_FAILED"})

\* C27 (as claimed): the download directory exists before any channel is
\* handled: whenever a channel is being resolved or its calls run, the
\* directory exists.
C27_DirectoryBeforeChannels ==
    mainPc \in {"resolve", "resolve_refresh", "collect"} => dirExists

\* C27 (amended): the download directory is made inside the channel run,
\* by the step that got a non-empty url list and submits the calls, so
\* not before the first channel is resolved; once made it stays; it
\* exists whenever calls are submitted, queued or in progress, so during
\* every ydl.download; and while it does not exist nothing was
\* downloaded or written.
C27_State ==
    /\ (mainPc = "collect" \/ queue # <<>> \/ InProgress # {}) => dirExists
    /\ ~dirExists =>
          /\ disk = {} /\ ledger = <<>>
          /\ \A u \in Videos : futures[u].st = "none"
    /\ (mainPc \in {"init", "loop", "resolve", "resolve_refresh"}
            /\ \A k \in 1..(ci - 1) : ~Contains(YoutubeDomain, chans[k])) =>
          ~dirExists

C27_Step ==
    /\ dirExists => dirExists'
    /\ (~dirExists /\ dirExists') =>
          /\ mainPc = "resolve" /\ mainPc' = "collect"
          /\ queue' = Entries(chans[ci])

C27_DirectoryBeforeItems ==
    /\ []C27_State
    /\ [][C27_Step]_vars

C27_Witness ==
    /\ dirExists
    /\ disk = {}
    /\ \E t \in Workers : w[t].pc = "download" /\ w[t].nFetch = 0

\* The component-wise sum of the counters of the channel summaries.
RECURSIVE SumCounts(_)
SumCounts(seq) ==
    IF seq = <<>>
    THEN ZeroCounts
    ELSE LET rest == SumCounts(Tail(seq))
         IN  [downloaded |-> Head(seq).downloaded + rest.downloaded,
              uploaded   |-> Head(seq).uploaded + rest.uploaded,
              failed     |-> Head(seq).failed + rest.failed]

\* C28 (as claimed): when the run has ended, the counters of the whole run
\* (downloaded, uploaded, failed) are the component-wise sum of the
\* counters of the channels that were run.
C28_GlobalCountersAreSum ==
    mainPc = "finished" => DownloadCounters = SumCounts(summaries)

\* The main thread has been interrupted.
Interrupted == mainPc \in {"shutdown", "interrupted"}

\* C29 (as claimed): once the interrupt has arrived no submitted call that
\* had not started is started and no further channel is begun; and when
\* the run has stopped every pool thread has ended its call, the futures
\* are all finished or never started, and the counters count every
\* finished call.
C29_Step ==
    Interrupted =>
        /\ \A u \in Videos :
              futures[u].st = "pending" => futures'[u].st = "pending"
        /\ queue' = queue
        /\ ci' = ci
        /\ mainPc' \in {"shutdown", "interrupted"}

C29_Stopped ==
    mainPc = "interrupted" =>
        /\ \A t \in Workers : w[t].pc = "idle"
        /\ counts.downloaded + counts.failed =
              Cardinality({u \in Videos : futures[u].st \in {"done", "collected"}})

C29_InterruptStopsNewWork ==
    /\ [][C29_Step]_vars
    /\ []C29_Stopped

\* The folder had files of the run and none of them is left on disk or in
\* the hands of a pool thread.
BecameEmpty(d) ==
    /\ \E f \in counters.folder_files : FolderPath(f) = d
    /\ \A f \in wavsOnDisk : FolderPath(f) # d
    /\ \A t \in Workers : uw[t].pc # "idle" => FolderPath(uw[t].wav_file) # d

\* C30 (as claimed): in the uploader a folder whose last file has been
\* uploaded or skipped, and removed, is deleted then, during the run: no
\* folder that became empty is still on disk.
C30_EmptyFolderDeleted ==
    \A d \in UploaderFolders : BecameEmpty(d) => d \notin foldersOnDisk

\* C31 (as claimed): in continuous mode every turn of the loop of
\* run_continuous calls refresh_cookies: when the monitor goes to sleep
\* for the interval it has refreshed once per iteration.
C31_RefreshEveryIteration ==
    monitorPc = "sleep" => refreshes = iteration

\* Where the channel is in the groups: the pairs of a group and a place.
PlacesInGroups(ch) ==
    {p \in (1..Len(groups)) \X (1..MaxChannels) :
        p[2] <= Len(groups[p[1]]) /\ groups[p[1]][p[2]] = ch}

\* Where the channel is among the channels still to distribute.
PlacesInSorted(ch) ==
    {j \in 1..Len(sorted_channels) : sorted_channels[j] = ch}

\* The sum of the video counts of the channels of a group.
RECURSIVE GroupSum(_)
GroupSum(g) ==
    IF g = <<>> THEN 0 ELSE Head(g).video_count + GroupSum(Tail(g))

\* C32: split_channels_balanced(channel_data, N) with N >= 1 makes exactly
\* N groups and N counts; every channel is in exactly one place, a group or
\* the channels still to distribute, and when the call has returned in
\* exactly one group; the groups hold nothing but the channels given; and
\* the count of each group is the sum of the video counts of its channels.
C32_GroupsPartitionChannels ==
    (splitPc \in {"loop", "returned"} /\ num_groups >= 1) =>
        /\ Len(groups) = num_groups
        /\ Len(group_video_counts) = num_groups
        /\ \A k \in 1..Len(channel_data) :
              Cardinality(PlacesInGroups(channel_data[k]))
                  + Cardinality(PlacesInSorted(channel_data[k])) = 1
        /\ \A i \in 1..Len(groups) : \A j \in 1..Len(groups[i]) :
              \E k \in 1..Len(channel_data) : groups[i][j] = channel_data[k]
        /\ \A i \in 1..Len(groups) :
              group_video_counts[i] = GroupSum(groups[i])
        /\ splitPc = "returned" =>
              \A k \in 1..Len(channel_data) :
                  Cardinality(PlacesInGroups(channel_data[k])) = 1

C32_Witness ==
    /\ splitPc = "returned"
    /\ num_groups >= 2
    /\ Len(channel_data) = MaxChannels
    /\ \E i \in 1..Len(groups) :
          Len(groups[i]) >= 2 /\ group_video_counts[i] > 0
    /\ \A i \in 1..Len(groups) : groups[i] # <<>>

\* The largest and the smallest of the numbers of a sequence, 0 for the
\* empty one.
MaxOf(cs) ==
    IF cs = <<>> THEN 0
    ELSE CHOOSE m \in {cs[i] : i \in 1..Len(cs)} : \A i \in 1..Len(cs) : cs[i] <= m

MinOf(cs) == IF cs = <<>> THEN 0 ELSE MinCount(cs)

\* The video count of the largest channel given.
LargestChannel ==
    MaxOf([k \in 1..Len(channel_data) |-> channel_data[k].video_count])

\* C37: split_channels_balanced hands the channels out in descending video
\* count, each to the group whose count is the smallest at that time, the
\* one of lowest index when several are; and with N >= 1 the largest and
\* the smallest group count never differ by more than the video count of
\* the largest channel, during the call and when it has returned, so also
\* when every group has received a channel.
C37_State ==
    (splitPc \in {"loop", "returned"} /\ num_groups >= 1) =>
        /\ \A j \in 1..(Len(sorted_channels) - 1) :
              sorted_channels[j].video_count >= sorted_channels[j + 1].video_count
        /\ \A i \in 1..Len(groups) : \A j \in 1..Len(groups[i]) :
              \A k \in 1..Len(sorted_channels) :
                  groups[i][j].video_count >= sorted_channels[k].video_count
        /\ MaxOf(group_video_counts) - MinOf(group_video_counts) <= LargestChannel

C37_Step ==
    (splitPc = "loop" /\ splitPc' = "loop" /\ num_groups >= 1) =>
        \E idx \in 1..num_groups :
            /\ groups'[idx] = Append(groups[idx], Head(sorted_channels))
            /\ \A i \in 1..num_groups : group_video_counts[idx] <= group_video_counts[i]
            /\ \A i \in 1..(idx - 1) : group_video_counts[i] > group_video_counts[idx]
            /\ \A i \in (1..num_groups) \ {idx} :
                  /\ groups'[i] = groups[i]
                  /\ group_video_counts'[i] = group_video_counts[i]
            /\ group_video_counts'[idx] =
                  group_video_counts[idx] + Head(sorted_channels).video_count

C37_GreedyBalance ==
    /\ []C37_State
    /\ [][C37_Step]_vars

C37_Witness ==
    /\ splitPc = "returned"
    /\ num_groups = MaxGroups
    /\ \A i \in 1..Len(groups) : groups[i] # <<>>
    /\ LargestChannel > 0
    /\ MaxOf(group_video_counts) - MinOf(group_video_counts) = LargestChannel
    /\ \E i \in 1..Len(groups) : Len(groups[i]) >= 2

\* The statuses of the rows a call is writing or has written.
WritingSuccess(rec) ==
    rec.pc \in {"csv_exists", "csv_open", "csv_write"}
        /\ rec.row.status = "DOWNLOAD_SUCCESS"

\* C33: in one call the DOWNLOAD_SUCCESS row is started only by the step
\* that found the downloaded file on disk, after a ydl.download, and is
\* appended before any upload call; the upload is entered only with that
\* row written; and once the upload has been entered the call makes no
\* further attempt, download or ledger append and only goes on to the put,
\* the removal and its return, so the row it wrote stays as it is.
C33_State ==
    \A t \in Workers :
        /\ WritingSuccess(w[t]) =>
              /\ w[t].nFetch >= 1
              /\ w[t].nUpload = 0 /\ w[t].nPut = 0 /\ w[t].nRemove = 0
              /\ w[t].nRows = 0
        /\ w[t].pc \in {"upload", "put", "remove"} =>
              /\ w[t].nRows = 1
              /\ w[t].row.status = "DOWNLOAD_SUCCESS"
        /\ w[t].nUpload >= 1 =>
              /\ w[t].pc \in {"put", "remove", "done"}
              /\ w[t].nRows = 1
              /\ w[t].row.status = "DOWNLOAD_SUCCESS"
              /\ \E i \in 1..Len(ledger) : ledger[i] = w[t].row

C33_Step ==
    \A t \in Workers :
        /\ (~WritingSuccess(w[t]) /\ WritingSuccess(w'[t])) =>
              /\ w[t].pc = "verify"
              /\ ExpectedFilename(w[t].url) \in disk
        /\ (w[t].nUpload >= 1 /\ w[t].pc # "done") =>
              /\ w'[t].attempt = w[t].attempt
              /\ w'[t].nFetch = w[t].nFetch
              /\ w'[t].nRows = w[t].nRows
              /\ w'[t].row = w[t].row
              /\ w'[t].nUpload = w[t].nUpload
        /\ (w[t].pc = "done" /\ w'[t].pc = "idle" /\ w[t].nUpload >= 1) =>
              /\ futures'[w[t].url].result[1] = TRUE
              /\ ledger' = ledger

C33_StepsOrdered ==
    /\ []C33_State
    /\ [][C33_Step]_vars

C33_Witness ==
    \E t \in Workers :
        /\ w[t].pc = "done"
        /\ w[t].ret = "upload_failed"
        /\ w[t].nPut = 1
        /\ w[t].nRows = 1
        /\ w[t].row.status = "DOWNLOAD_SUCCESS"
        /\ \E i \in 1..Len(ledger) : ledger[i] = w[t].row

\* C34: a cookie export is asked for only after a cookie error on an
\* attempt that is not the last; whether it returns or raises, the call or
\* the channel resolution goes on to the next attempt (nothing is returned,
\* raised or written to the ledger, and the failed export writes no new
\* cookies.txt), and that attempt counts like any other: an invocation
\* makes at most max_retries - 1 = 2 exports and at most max_retries
\* attempts.
C34_State ==
    /\ \A t \in Workers :
          /\ w[t].pc = "refresh" =>
                /\ w[t].attempt < max_retries - 1
                /\ IsCookieError(w[t].fails[Len(w[t].fails)])
          /\ w[t].nRefresh + (IF w[t].pc = "refresh" THEN 1 ELSE 0)
                <= max_retries - 1
          /\ w[t].nRefresh <= w[t].attempt
          /\ w[t].nCookieFiles <= w[t].nRefresh
          /\ w[t].attempt <= max_retries - 1
    /\ mainPc = "resolve_refresh" =>
          /\ resolve.attempt < max_retries - 1
          /\ IsCookieError(resolve.fails[Len(resolve.fails)])
    /\ resolve.nRefresh + (IF mainPc = "resolve_refresh" THEN 1 ELSE 0)
          <= max_retries - 1
    /\ resolve.nRefresh <= resolve.attempt
    /\ resolve.attempt <= max_retries - 1

C34_Step ==
    /\ \A t \in Workers :
          /\ (w[t].pc = "refresh" /\ w'[t] # w[t]) =>
                /\ w'[t].pc = "extract"
                /\ w'[t].attempt = w[t].attempt + 1
                /\ w'[t].nRefresh = w[t].nRefresh + 1
                /\ w'[t].nCookieFiles \in {w[t].nCookieFiles, w[t].nCookieFiles + 1}
                /\ w'[t].fails = w[t].fails
                /\ w'[t].nRows = w[t].nRows
                /\ ledger' = ledger
          /\ w'[t].nRefresh > w[t].nRefresh => w[t].pc = "refresh"
    /\ (mainPc = "resolve_refresh" /\ resolve' # resolve) =>
          /\ mainPc' = "resolve"
          /\ resolve'.attempt = resolve.attempt + 1
          /\ resolve'.nRefresh = resolve.nRefresh + 1
          /\ resolve'.fails = resolve.fails
    /\ resolve'.nRefresh > resolve.nRefresh => mainPc = "resolve_refresh"

C34_FailedRefreshIsSwallowed ==
    /\ []C34_State
    /\ [][C34_Step]_vars

C34_Witness ==
    \E t \in Workers :
        /\ w[t].pc = "done"
        /\ w[t].ret = "retries_exhausted"
        /\ w[t].nRefresh = max_retries - 1
        /\ w[t].nCookieFiles = 0
        /\ Len(w[t].fails) = max_retries

\* C35: the check before the download fails open.  It answers `present`
\* only with a bucket that holds the blob; without a bucket, or when the
\* check raises, it answers `not present` and the call goes on to the
\* download, so no ALREADY_EXISTS row and no skip comes from a check that
\* failed; and a call that found its downloaded file goes on to the upload
\* when there is a bucket, and keeps the file when there is none.
C35_State ==
    \A t \in Workers :
        /\ (w[t].row.status = "ALREADY_EXISTS" \/ w[t].ret = "already_exists") =>
              /\ bucket
              /\ BlobName(ExpectedFilename(w[t].url)) \in storage
              /\ w[t].pre
        /\ w[t].missed > 0 =>
              /\ bucket
              /\ w[t].pc \notin {"extract", "precheck"} \/ w[t].attempt > 0
        /\ (w[t].pc = "done" /\ w[t].ret \in FetchedReturns) =>
              /\ bucket => w[t].nUpload = 1
              /\ ~bucket => w[t].ret = "no_bucket" /\ w[t].nUpload = 0

C35_Step ==
    \A t \in Workers :
        (w[t].pc = "precheck" /\ w'[t] # w[t]) =>
            /\ w'[t].pc \in {"csv_exists", "download"}
            /\ w'[t].pc = "csv_exists" =>
                  /\ bucket
                  /\ BlobName(ExpectedFilename(w[t].url)) \in storage
                  /\ w'[t].row.status = "ALREADY_EXISTS"
            /\ (~bucket \/ BlobName(ExpectedFilename(w[t].url)) \notin storage
                    \/ w'[t].missed > w[t].missed) =>
                  /\ w'[t].pc = "download"
                  /\ w'[t].row = w[t].row
                  /\ ledger' = ledger

C35_ExistenceCheckFailsOpen ==
    /\ []C35_State
    /\ [][C35_Step]_vars

C35_Witness ==
    \E t \in Workers :
        /\ w[t].pc = "done"
        /\ w[t].ret = "uploaded"
        /\ w[t].missed = 2
        /\ w[t].nFetch = 1
        /\ w[t].nPut = 1
        /\ w[t].row.status = "DOWNLOAD_SUCCESS"

\* The wav files of the run: those a pool thread has taken and those still
\* submitted.
Submitted ==
    counters.folder_files \cup {upload_args[i] : i \in 1..Len(upload_args)}

\* The pool threads inside a call of upload_single_file.
BusyUploaders == {t \in Workers : uw[t].pc # "idle"}

CountedFiles == counters.uploaded + counters.skipped + counters.failed

\* C36: in the uploader every submitted wav file is counted exactly once,
\* as uploaded, skipped or failed, when its call ends, so that after the
\* pool is done uploaded + skipped + failed is the number of wav files
\* found; and a local file is removed only by a call that found its blob
\* on GCS or whose upload of it returned, so the blob of every removed
\* file is on GCS and the removed files are the uploaded and skipped ones.
C36_State ==
    uploadPc \in {"pool", "done"} =>
        /\ CountedFiles + Cardinality(BusyUploaders)
              = Cardinality(counters.folder_files)
        /\ wavsOnDisk \subseteq Submitted
        /\ counters.uploaded + counters.skipped
              = Cardinality(Submitted \ wavsOnDisk)
        /\ \A f \in Submitted \ wavsOnDisk : UploadBlobName(f) \in gcs
        /\ \A t \in Workers :
              uw[t].pc \in {"remove_skipped", "remove_uploaded"} =>
                  UploadBlobName(uw[t].wav_file) \in gcs
        /\ uploadPc = "done" =>
              /\ BusyUploaders = {}
              /\ CountedFiles = Cardinality(Submitted)

C36_Step ==
    /\ (uploadPc = "scan" /\ uploadPc' = "pool") =>
          /\ Submitted' = wavsOnDisk
          /\ Len(upload_args') = Cardinality(wavsOnDisk)
    /\ uploadPc \in {"pool", "done"} => Submitted' = Submitted
    /\ CountedFiles' \in {CountedFiles, CountedFiles + 1}
    /\ CountedFiles' = CountedFiles + 1 =>
          \E t \in Workers : uw[t].pc # "idle" /\ uw'[t].pc = "idle"
    /\ \A t \in Workers :
          (uw[t].pc # "idle" /\ uw'[t].pc = "idle") =>
              CountedFiles' = CountedFiles + 1
    /\ wavsOnDisk' # wavsOnDisk =>
          \E t \in Workers :
              /\ uw[t].pc \in {"remove_skipped", "remove_uploaded"}
              /\ wavsOnDisk' = wavsOnDisk \ {uw[t].wav_file}
              /\ UploadBlobName(uw[t].wav_file) \in gcs

C36_EveryFileCountedOnce ==
    /\ []C36_State
    /\ [][C36_Step]_vars

C36_Witness ==
    /\ uploadPc = "done"
    /\ poolSize = NumWorkers
    /\ counters.uploaded >= 1
    /\ counters.skipped >= 1
    /\ counters.failed >= 1
    /\ CountedFiles = Len(WavFiles)

====
